---------------------------- MODULE Spec2Model ----------------------------
(***************************************************************************)
(* Model of modbus_simple_logger: the Modbus RTU request/response exchange *)
(* (webserialClient.ts, webusbClient.ts), the polling pipeline of App.tsx  *)
(* and the IndexedDB-backed data store of dataStorage.ts.                  *)
(*                                                                         *)
(* JavaScript runs every callback to completion and drains the microtask   *)
(* queue before the next task, so an action of this model is one task: the *)
(* code from the completion of one real I/O wait (a stream write or read,  *)
(* an IndexedDB request, a port operation, a timer) up to the next one.    *)
(***************************************************************************)
EXTENDS Integers, Sequences, FiniteSets, TLC

(***************************************************************************)
(* Bounds of the model.                                                    *)
(***************************************************************************)
MaxTicks == 2
MaxInFlight == 2
MaxConnects == 2
MaxRecConnects == 1
MaxWriters == 1
MaxAppend == 1030
MaxStartAt == 1
Burst == 64
SplitAt == 20
MaxRates == 2
MaxPayload == 2
MaxItems == 2
MaxCalPolls == 1
MaxRegs == 2
MaxSpan == 3

(***************************************************************************)
(* Program constants.                                                      *)
(***************************************************************************)
AI_CHANNELS == 16
AI_START_REGISTER == 0
MAX_POINTS_IN_MEMORY == 1024
SlaveId == 1
POLLING_OPTIONS == <<200, 500, 1000, 2000, 5000, 10000, 20000, 30000, 60000, 120000, 300000>>

(***************************************************************************)
(* Bit arithmetic on naturals (bytes, and 16-bit words byte by byte).      *)
(***************************************************************************)
RECURSIVE XorBits(_, _)
XorBits(a, b) ==
    IF a = 0 THEN b
    ELSE IF b = 0 THEN a
    ELSE 2 * XorBits(a \div 2, b \div 2) + ((a + b) % 2)

XorByte == [a \in 0..255 |-> [b \in 0..255 |-> XorBits(a, b)]]

Xor(a, b) == XorByte[a \div 256][b \div 256] * 256 + XorByte[a % 256][b % 256]

(***************************************************************************)
(* CRC16 of modbus-serial/utils/crc16: accumulator 0xFFFF, each byte is    *)
(* XORed into the low byte, then eight times: shift right, and XOR with    *)
(* 0xA001 when the bit shifted out was set.  The eight shifts are          *)
(* tabulated by low byte: the high byte only moves down by eight bits.     *)
(***************************************************************************)
\* a shift that never applies the polynomial
crcStepNoPolynomial(crc) == crc \div 2

crcStep(crc) == IF crc % 2 = 1 THEN Xor(crc \div 2, 40961) ELSE crc \div 2

crcTable ==
    [b \in 0..255 |->
        crcStep(crcStep(crcStep(crcStep(crcStep(crcStep(crcStep(crcStep(b))))))))]

crcByte(crc, byte) == Xor(crc \div 256, crcTable[XorByte[crc % 256][byte]])

\* the accumulator after the bytes data[i..j], taken in order (the range is
\* halved, and the first half computed before the second is entered, so that
\* long frames do not nest deeply)
RECURSIVE crcFrom(_, _, _, _)
crcFrom(crc, data, i, j) ==
    IF i > j THEN crc
    ELSE IF i = j THEN crcByte(crc, data[i])
    ELSE LET half == crcFrom(crc, data, i, (i + j) \div 2)
         IN  IF half >= 0 THEN crcFrom(half, data, (i + j) \div 2 + 1, j) ELSE half

crc16(data) == crcFrom(65535, data, 1, Len(data))

(***************************************************************************)
(* buildFrame: [slaveId, functionCode, ...payload, crc & 0xff, crc >> 8].  *)
(***************************************************************************)
\* a frame whose CRC is pushed high byte first
FrameOfCrcHighFirst(slaveId, functionCode, payload) ==
    LET frame == <<slaveId, functionCode>> \o payload
        crc   == crc16(frame)
    IN  frame \o <<(crc \div 256) % 256, crc % 256>>

\* buildFrame of a client constructed with slaveId
FrameOf(slaveId, functionCode, payload) ==
    LET frame == <<slaveId, functionCode>> \o payload
        crc   == crc16(frame)
    IN  frame \o <<crc % 256, (crc \div 256) % 256>>

buildFrame(functionCode, payload) == FrameOf(SlaveId, functionCode, payload)


(***************************************************************************)
(* The device: its input registers while it answers request n, as unsigned *)
(* 16-bit words (odd channels hold words with the sign bit set), and its   *)
(* well-formed answer to Read Input Registers: address, function code,     *)
(* byte count, the words high byte first, CRC low byte first.              *)
(***************************************************************************)
DeviceWords(n) ==
    [i \in 1..AI_CHANNELS |-> IF i % 2 = 0 THEN 256 * n + i ELSE 65536 - 256 * n - i]

WordBytes(words) ==
    [k \in 1..(2 * Len(words)) |->
        IF k % 2 = 1 THEN words[(k + 1) \div 2] \div 256 ELSE words[k \div 2] % 256]

DeviceFrame(n) == buildFrame(4, <<2 * AI_CHANNELS>> \o WordBytes(DeviceWords(n)))

Resp == [n \in 1..(MaxTicks + 1) |-> DeviceFrame(n)]

Corrupt(f) == [f EXCEPT ![Len(f)] = (f[Len(f)] + 1) % 256]

\* an answer with a valid CRC that holds the first count registers only
ShortFrame(n, count) ==
    buildFrame(4, <<2 * count>> \o WordBytes(SubSeq(DeviceWords(n), 1, count)))

ShortResp == [n \in 1..(MaxTicks + 1) |-> ShortFrame(n, AI_CHANNELS - 2)]

\* an answer of the full length with a valid CRC whose byte count field says
\* that it holds count registers
MiscountFrame(n, count) == buildFrame(4, <<2 * count>> \o WordBytes(DeviceWords(n)))

UnderResp == [n \in 1..(MaxTicks + 1) |-> MiscountFrame(n, AI_CHANNELS - 2)]

OverResp == [n \in 1..(MaxTicks + 1) |-> MiscountFrame(n, AI_CHANNELS + 1)]

\* what the device does with a request: answer in one chunk, in two, with a
\* damaged CRC, not at all, with the first part only, or with two bytes only;
\* or with fewer registers than asked for; or with a byte count field that
\* does not fit the registers it sends
DeviceBehaviours == {"good", "split", "badcrc", "silent"}

XferBehaviours == DeviceBehaviours \cup {"partial", "tiny", "short"}

CountBehaviours == {"good", "under", "over"}

\* The chunks the device sends in answer to request n.
Chunks(beh, n) ==
    CASE beh = "good"    -> <<Resp[n]>>
      [] beh = "split"   -> <<SubSeq(Resp[n], 1, SplitAt),
                              SubSeq(Resp[n], SplitAt + 1, Len(Resp[n]))>>
      [] beh = "badcrc"  -> <<Corrupt(Resp[n])>>
      [] beh = "partial" -> <<SubSeq(Resp[n], 1, SplitAt)>>
      [] beh = "tiny"    -> <<SubSeq(Resp[n], 1, 2)>>
      [] beh = "short"   -> <<ShortResp[n]>>
      [] beh = "under"   -> <<UnderResp[n]>>
      [] beh = "over"    -> <<OverResp[n]>>
      [] OTHER           -> <<>>

\* the device's answer to a write (Write Single Register, Write Multiple
\* Registers): address, function code, the first four bytes of the request's
\* payload, CRC
AckFrame(req) == buildFrame(req[2], SubSeq(req, 3, 6))

\* The chunks the device sends in answer to request n, whose frame is req.
Answer(beh, n, req) == IF beh = "ack" THEN <<AckFrame(req)>> ELSE Chunks(beh, n)

(***************************************************************************)
(* Error messages (Error.message as shown in the status line).             *)
(***************************************************************************)
MsgNotConnected == "Device not connected"
MsgTimeout      == "Timeout waiting for response"
MsgClosed       == "Stream closed unexpectedly"
MsgReleased     == "TypeError: reader released"
MsgTooShort     == "Response too short for CRC validation"
MsgCrc          == "CRC mismatch"
MsgWriterClosed == "TypeError: cannot write to a closed stream"
MsgRange        == "RangeError: offset is outside the bounds of the DataView"

(***************************************************************************)
(* transfer, after the bytes are assembled: the CRC validation.            *)
(***************************************************************************)
receivedCrc(resp) == resp[Len(resp) - 1] + 256 * resp[Len(resp)]

calculatedCrc(resp) == crc16(SubSeq(resp, 1, Len(resp) - 2))

\* a validation that checks the length only
ValidateLengthOnly(resp) == IF Len(resp) < 3 THEN MsgTooShort ELSE "ok"

Validate(resp) ==
    IF Len(resp) < 3 THEN MsgTooShort
    ELSE IF receivedCrc(resp) # calculatedCrc(resp) THEN MsgCrc
    ELSE "ok"

(***************************************************************************)
(* readInputRegisters: request frame, expected length and the decoding of  *)
(* the validated response (DataView.getUint8(2), getInt16(3 + 2i)).        *)
(***************************************************************************)
ReadRequest(start, count) ==
    buildFrame(4, <<start \div 256, start % 256, count \div 256, count % 256>>)

\* a transfer that does not wait for the CRC bytes
ExpectedLengthNoCrc(count) == 3 + count * 2

ExpectedLength(count) == 5 + count * 2

getInt16(view, offset) ==
    LET u == 256 * view[offset + 1] + view[offset + 2]
    IN  IF u >= 32768 THEN u - 65536 ELSE u

\* the loop "for (i = 0; i < byteCount / 2; i += 1)" runs ceil(byteCount / 2) times
DecodeCount(view) == (view[3] + 1) \div 2

DecodeFails(view) == 3 + 2 * DecodeCount(view) > Len(view)

DecodeRegisters(view) == [i \in 1..DecodeCount(view) |-> getInt16(view, 3 + 2 * (i - 1))]

(***************************************************************************)
(* readInputRegistersAsFloat32Abcd: count * 2 registers are asked for; the *)
(* loop "for (i = 0; i < byteCount; i += 4)" reads a group of four bytes   *)
(* at 3 + i.  A group is kept as the four bytes getFloat32 interprets.     *)
(***************************************************************************)
Float32Request(start, count) == ReadRequest(start, count * 2)

Float32Expected(count) == ExpectedLength(count * 2)

DecodeCount32(view) == (view[3] + 3) \div 4

DecodeFails32(view) == 3 + 4 * DecodeCount32(view) > Len(view)

getFloat32Bytes(view, offset) == SubSeq(view, offset + 1, offset + 4)

DecodeWords32(view) ==
    [i \in 1..DecodeCount32(view) |-> getFloat32Bytes(view, 3 + 4 * (i - 1))]

(***************************************************************************)
(* writeSingleRegister and writeMultipleHoldingRegisters: the frames, the  *)
(* expected length of the answer and the checks before the frame is built. *)
(***************************************************************************)
WriteSingleRequest(address, value) ==
    buildFrame(6, <<address \div 256, address % 256, value \div 256, value % 256>>)

WriteExpected == 8

MsgNoValues == "No values provided to write"

MsgTooMany  == "Cannot write more than 123 registers in a single request"

MAX_WRITE_REGISTERS == 123

\* a check that lets one register more through
WriteMultipleCheckLoose(values) ==
    IF Len(values) = 0 THEN MsgNoValues
    ELSE IF Len(values) > MAX_WRITE_REGISTERS + 1 THEN MsgTooMany
    ELSE "ok"

WriteMultipleCheck(values) ==
    IF Len(values) = 0 THEN MsgNoValues
    ELSE IF Len(values) > MAX_WRITE_REGISTERS THEN MsgTooMany
    ELSE "ok"

\* a frame whose values are masked to 15 bits
WriteMultipleRequestNarrow(start, values) ==
    buildFrame(16, <<start \div 256, start % 256, Len(values) \div 256, Len(values) % 256,
                     (2 * Len(values)) % 256>>
                   \o WordBytes([k \in 1..Len(values) |-> values[k] % 32768]))

WriteMultipleRequest(start, values) ==
    buildFrame(16, <<start \div 256, start % 256, Len(values) \div 256, Len(values) % 256,
                     (2 * Len(values)) % 256>>
                   \o WordBytes([k \in 1..Len(values) |-> values[k] % 65536]))

(***************************************************************************)
(* Calibration (calibration.ts) and the point built by pollOnce.           *)
(***************************************************************************)
IdentityCal == [a |-> 0, b |-> 1, c |-> 0]

\* a conversion without the quadratic term
aiToPhysicalLinear(raw, cal) == cal.b * raw + cal.c

aiToPhysical(raw, cal) == cal.a * raw * raw + cal.b * raw + cal.c

Physical(aiRaw) == [i \in 1..Len(aiRaw) |-> aiToPhysical(aiRaw[i], IdentityCal)]

INT16_MAX == 32767

\* the thresholds 0.8 and 0.9, in tenths
WARNING_THRESHOLD == 8

DANGER_THRESHOLD == 9

\* Math.abs
abs(x) == IF x < 0 THEN -x ELSE x

\* a status taken from raw as it is, without Math.abs
getAiStatusSigned(raw) ==
    IF 10 * raw >= DANGER_THRESHOLD * INT16_MAX THEN "danger"
    ELSE IF 10 * raw >= WARNING_THRESHOLD * INT16_MAX THEN "warning"
    ELSE "normal"

\* ratio = Math.abs(raw) / INT16_MAX, compared with the thresholds.  No
\* quotient n / 32767 of an integer n is nearer to 0.8 or 0.9 than 1 / 327670,
\* so the comparison of the doubles is the comparison of 10 * n with
\* 8 * 32767 and 9 * 32767.
getAiStatus(raw) ==
    IF 10 * abs(raw) >= DANGER_THRESHOLD * INT16_MAX THEN "danger"
    ELSE IF 10 * abs(raw) >= WARNING_THRESHOLD * INT16_MAX THEN "warning"
    ELSE "normal"

(***************************************************************************)
(* The calibration set and its cookie.  A JSON value found where an entry  *)
(* is expected is an object with the numbers a, b, c, or null (also: no    *)
(* such index), or a string.  The cookie is absent, or unparsable, or      *)
(* holds a JSON object, or holds an array of such values.  JSON.stringify  *)
(* followed by JSON.parse gives these values back as they are.             *)
(***************************************************************************)
CalObject(a, b, c) == [tag |-> "object", a |-> a, b |-> b, c |-> c]

JsonNull == [tag |-> "null", a |-> 0, b |-> 0, c |-> 0]

JsonString == [tag |-> "string", a |-> 0, b |-> 0, c |-> 0]

defaultAiCalibration == CalObject(0, 1, 0)

NoCookie == [kind |-> "absent", items |-> <<>>]

\* readJsonCookie: the parsed value, null (JsonNull) without a cookie or
\* when JSON.parse throws
readJsonCookie(ck) ==
    IF ck.kind \in {"absent", "unparsable"} THEN [kind |-> "null", items |-> <<>>] ELSE ck

loadAiCalibration(ck, channels) ==
    LET raw == readJsonCookie(ck)
    IN  IF raw.kind # "array" THEN [idx \in 1..channels |-> defaultAiCalibration]
        ELSE [idx \in 1..channels |->
                IF idx <= Len(raw.items) /\ raw.items[idx].tag # "null"
                THEN raw.items[idx] ELSE defaultAiCalibration]

saveAiCalibration(values) == [kind |-> "array", items |-> values]

\* the result of arithmetic on a field that is not there
NaN == -2147483647

\* aiToPhysical on an entry of the calibration set
CalPhysical(raw, entry) == IF entry.tag = "object" THEN aiToPhysical(raw, entry) ELSE NaN

(***************************************************************************)
(* DataStorage (IndexedDB object store, keyPath id, index on timestamp).   *)
(* The store is the sequence of its records in primary-key order.          *)
(***************************************************************************)
\* an add that puts the record in front
AddDataPointInFront(s, point) == <<point>> \o s

AddDataPoint(s, point) == Append(s, point)

\* the order of the timestamp index: by timestamp, then by primary key
IndexBefore(s, i, j) == s[i].timestamp < s[j].timestamp
                        \/ (s[i].timestamp = s[j].timestamp /\ i < j)

IndexRank(s, j) == Cardinality({i \in 1..Len(s) : IndexBefore(s, i, j)})

\* the positions of s, and the records of s at the positions sel
Indices(s) == [i \in 1..Len(s) |-> i]

AtIndices(s, sel) == [k \in 1..Len(sel) |-> s[sel[k]]]

\* keepLatestPoints' cursor walks the timestamp index and deletes the first
\* deleteCount records it meets (all of them when the store holds fewer)
DeleteOldest(s, deleteCount) ==
    IF deleteCount <= 0 THEN s
    ELSE IF deleteCount >= Len(s) THEN <<>>
    ELSE LET first == CHOOSE j \in 1..Len(s) : IndexRank(s, j) = deleteCount
             Kept(j) == j = first \/ IndexBefore(s, first, j)
         IN  AtIndices(s, SelectSeq(Indices(s), Kept))

\* keepLatestPoints with nothing else running between its count and its cursor
keepLatestPoints(s, maxPoints) ==
    IF Len(s) <= maxPoints THEN s ELSE DeleteOldest(s, Len(s) - maxPoints)

\* updateChartData: what is handed to the display
\* a stride that is rounded down
StrideFloor(n) == n \div MAX_POINTS_IN_MEMORY

Stride(n) == (n + MAX_POINTS_IN_MEMORY - 1) \div MAX_POINTS_IN_MEMORY

\* a stride filter that starts at the stride-th point
DecimateFromStride(allPoints) ==
    LET stride == Stride(Len(allPoints))
        Kept(i) == i % stride = 0
    IN  AtIndices(allPoints, SelectSeq(Indices(allPoints), Kept))

Decimate(allPoints) ==
    LET stride == Stride(Len(allPoints))
        Kept(i) == (i - 1) % stride = 0
    IN  AtIndices(allPoints, SelectSeq(Indices(allPoints), Kept))

DisplayPoints(allPoints, writer) ==
    IF writer = 0 THEN allPoints
    ELSE IF Len(allPoints) <= MAX_POINTS_IN_MEMORY THEN allPoints
    ELSE Decimate(allPoints)

(***************************************************************************)
(* State.                                                                  *)
(***************************************************************************)
VARIABLES
    connected,      \* App: useState connected
    acquiring,      \* App: useState acquiring
    status,         \* App: useState status
    tsvWriter,      \* App: useState tsvWriter (0: null, else the writer's id)
    dataPoints,     \* App: useState dataPoints, the points handed to the charts
    clientRef,      \* App: clientRef.current (0: null, else the client's id)
    pollTimer,      \* App: pollTimer.current and the pollOnce closure it runs
    pollingRate,    \* App: useState pollingRate (its valueMs)
    aiCalibration,  \* App: useState aiCalibration, one entry per channel
    cookie,         \* the value of the cookie ai_calibration_v1
    intervals,      \* the window's live intervals, oldest first: closure and period
    clients,        \* the ModbusClient objects constructed so far
    polls,          \* the pollOnce calls (or direct client calls) in progress
    conn,           \* handleConnect's position
    disc,           \* handleDisconnect's position
    rx,             \* chunks queued in the open port's readable stream
    readQ,          \* pending reads on the open port, oldest first
    devOut,         \* chunks the device has sent that have not arrived yet
    idbQ,           \* IndexedDB requests created and not yet run, oldest first
    store,          \* the records of the dataPoints object store
    tsv,            \* the log files: their state and rows
    now,            \* Date.now()
    ticks,          \* requests started so far
    nclients,       \* clients constructed so far
    save,           \* handleStartSave / handleStopSave's position and writer
    nwriters,       \* log writers created so far
    discDone,       \* a handleDisconnect has returned and no connect began since
    anyFailed       \* some exchange has failed so far

vars == <<connected, acquiring, status, tsvWriter, dataPoints, clientRef,
          pollTimer, pollingRate, aiCalibration, cookie, intervals, clients, polls, conn, disc, rx, readQ, devOut, idbQ,
          store, tsv, now, ticks, nclients, save, nwriters, discDone, anyFailed>>

calVars  == <<aiCalibration, cookie>>
appVars  == <<connected, acquiring, tsvWriter, clientRef, pollTimer, pollingRate, intervals,
              calVars>>
handlerVars == <<conn, disc, nclients, save, nwriters, discDone>>
portVars == <<rx, readQ, devOut>>

Slots == 1..MaxInFlight
ClientIds == 1..MaxConnects
WriterIds == 1..MaxWriters

\* hc is the position of the handleConnect that constructed the client, for
\* the runs in which two of them are followed at once ("none" elsewhere)
NoClient == [kind |-> "serial", port |-> FALSE, reader |-> FALSE, writer |-> FALSE,
             opened |-> FALSE, rs |-> "none", hc |-> "none"]

\* op is the client operation called and values the values it was given to
\* write, req the frame it handed to the port (<<>>: none) and expected the
\* response length it asked transfer for; slaveId and fc are the address and
\* the function code given to a buildFrame that is called on its own
\* the serial settings of a client (SerialSettings)
DEFAULT_SERIAL_SETTINGS == [baudRate |-> 38400, dataBits |-> 8, stopBits |-> 1,
                            parity |-> "none"]

IdlePoll == [pc |-> "idle", caller |-> "none", c |-> 0, w |-> 0, n |-> 0,
             beh |-> "none", buf |-> <<>>, late |-> FALSE, overlap |-> FALSE,
             aiRaw |-> <<>>, ts |-> 0, err |-> "", resp |-> <<>>,
             op |-> "none", values |-> <<>>, req |-> <<>>, expected |-> 0,
             slaveId |-> 0, fc |-> 0, start |-> 0, count |-> 0, pattern |-> 0,
             skew |-> 0, aiStatus |-> "none", settings |-> DEFAULT_SERIAL_SETTINGS,
             control |-> FALSE]

NoTimer == [armed |-> FALSE, w |-> 0]

InExchange(p) == p.pc \in {"write", "read"}

ExchangeSlots == {s \in Slots : InExchange(polls[s])}

FreeSlots == {s \in Slots : polls[s].pc = "idle"}

\* the client whose port is open with a readable stream that still delivers
OpenClients == {c \in ClientIds : clients[c].opened /\ clients[c].rs = "active"}

(***************************************************************************)
(* useEffect([acquiring, startPolling, stopPolling]): with acquiring set,  *)
(* startPolling clears the timer and arms setInterval(pollOnce, period)    *)
(* with the pollOnce of this render (which closes over tsvWriter); without,*)
(* stopPolling clears it.                                                  *)
(***************************************************************************)
\* a stopPolling that forgets clearInterval
stopPollingNoClear == [armed |-> TRUE, w |-> 0]

stopPolling == NoTimer

startPolling(writer) == [armed |-> TRUE, w |-> writer]

PollingEffect(acq, writer) == IF acq THEN startPolling(writer) ELSE stopPolling

\* a clearInterval that is never called
clearIntervalForgotten(iv, timer) == iv

\* window.clearInterval(pollTimer.current), done when pollTimer.current is
\* set; the interval it names is the one armed last
clearInterval(iv, timer) == IF timer.armed THEN SubSeq(iv, 1, Len(iv) - 1) ELSE iv

\* window.setInterval(pollOnce, pollingRate.valueMs); age is the time since
\* the interval was armed or has fired last (followed where time is, 0 elsewhere)
setInterval(iv, writer, ms) == Append(iv, [w |-> writer, ms |-> ms, age |-> 0])

\* what the effect leaves of the live intervals: the cleanup of the previous
\* effect (stopPolling) has run, then startPolling or stopPolling
EffectIntervals(acq, writer, ms) ==
    LET cleared == clearInterval(intervals, pollTimer)
    IN  IF acq THEN setInterval(cleared, writer, ms) ELSE cleared

(***************************************************************************)
(* ensureReady.                                                            *)
(***************************************************************************)
\* an ensureReady that never throws
ReadyUnchecked(c) == TRUE

Ready(c) ==
    IF clients[c].kind = "serial"
    THEN clients[c].port /\ clients[c].reader /\ clients[c].writer
    ELSE clients[c].port /\ clients[c].opened

(***************************************************************************)
(* transfer's read loop of the serial client, run from the buffer b with   *)
(* the chunks q queued in the stream, until it has to wait for a chunk:    *)
(*   while (buffer.length < expectedLength) {                              *)
(*     if (Date.now() - startTime > timeout) throw Timeout;                *)
(*     {value, done} = await reader.read(); if (done) throw; push(value) } *)
(* and, with the bytes assembled, the slice to expectedLength and the CRC  *)
(* check.                                                                  *)
(***************************************************************************)
Wait(b, q) == [kind |-> "wait", msg |-> "", view |-> <<>>, resp |-> <<>>, buf |-> b, rx |-> q]

Fail(msg, resp, b, q) ==
    [kind |-> "fail", msg |-> msg, view |-> <<>>, resp |-> resp, buf |-> b, rx |-> q]

Checked(resp, b, q) ==
    IF Validate(resp) = "ok"
    THEN [kind |-> "ok", msg |-> "", view |-> resp, resp |-> resp, buf |-> b, rx |-> q]
    ELSE Fail(Validate(resp), resp, b, q)

RECURSIVE SerialLoop(_, _, _, _, _)
SerialLoop(b, late, q, rs, expected) ==
    IF Len(b) >= expected THEN Checked(SubSeq(b, 1, expected), b, q)
    ELSE IF late THEN Fail(MsgTimeout, <<>>, b, q)
    ELSE IF rs = "released" THEN Fail(MsgReleased, <<>>, b, q)
    ELSE IF rs # "active" THEN Fail(MsgClosed, <<>>, b, q)
    ELSE IF q = <<>> THEN Wait(b, q)
    ELSE SerialLoop(b \o Head(q), late, Tail(q), rs, expected)

(***************************************************************************)
(* transfer of the USB client after transferOut: transferIn(endpoint,      *)
(* expectedLength) raced against a 1000 ms timer; the packet that wins is  *)
(* checked as a whole.                                                     *)
(***************************************************************************)
UsbResult(packet, q) == Checked(packet, <<>>, q)

UsbTimeout(q) == Fail(MsgTimeout, <<>>, <<>>, q)

IsUsb(c) == clients[c].kind = "usb"

(***************************************************************************)
(* pollOnce after readInputRegisters: the catch branch, and the success    *)
(* path up to the first wait of updateDataHistory (addDataPoint's request).*)
(***************************************************************************)
\* a catch branch that drops the error without showing it
PollCatchSilent(s, msg) ==
    /\ polls' = [polls EXCEPT ![s] = IdlePoll]
    /\ UNCHANGED <<status, idbQ>>

PollCatch(s, msg) ==
    /\ status' = msg
    /\ polls' = [polls EXCEPT ![s] = IdlePoll]
    /\ UNCHANGED idbQ

StoredDataPoint(timestamp, aiRaw, aiPhysical) ==
    [timestamp |-> timestamp, aiRaw |-> aiRaw, aiPhysical |-> aiPhysical]

DataPointOf(aiRaw, timestamp) == StoredDataPoint(timestamp, aiRaw, Physical(aiRaw))

PollSuccess(s, view) ==
    IF DecodeFails(view) THEN PollCatch(s, MsgRange)
    ELSE /\ polls' = [polls EXCEPT ![s].pc = "add", ![s].buf = <<>>,
                                   ![s].aiRaw = DecodeRegisters(view), ![s].ts = now]
         /\ idbQ' = Append(idbQ, [op |-> "add", who |-> "poll", s |-> s,
                                  point |-> DataPointOf(DecodeRegisters(view), now)])
         /\ UNCHANGED status

\* what the operation op returns from the validated response view: the
\* registers, the groups of four bytes read as float32, or nothing
Returned(op, view) ==
    CASE op = "readInputRegisters" ->
             IF DecodeFails(view) THEN <<>> ELSE DecodeRegisters(view)
      [] op = "readInputRegistersAsFloat32Abcd" ->
             IF DecodeFails32(view) THEN <<>> ELSE DecodeWords32(view)
      [] OTHER -> <<>>

\* a client call made directly (not by pollOnce): its result is kept for the caller
DirectDone(s, out) ==
    /\ polls' = [polls EXCEPT ![s].pc = "result", ![s].buf = <<>>, ![s].err = out.msg,
                              ![s].resp = out.resp,
                              ![s].aiRaw = IF out.kind = "ok" THEN Returned(polls[s].op, out.view)
                                           ELSE <<>>]
    /\ UNCHANGED <<status, idbQ>>

\* what the caller of the exchange of slot s does with the outcome out
Resume(s, out) ==
    IF out.kind = "wait"
    THEN /\ polls' = [polls EXCEPT ![s].pc = "read", ![s].buf = out.buf]
         /\ UNCHANGED <<status, idbQ>>
    ELSE IF polls[s].caller = "direct" THEN DirectDone(s, out)
    ELSE IF out.kind = "ok" THEN PollSuccess(s, out.view)
    ELSE PollCatch(s, out.msg)

(***************************************************************************)
(* The timer fires: pollOnce of the armed closure, up to its first wait    *)
(* (writer.write of the request frame).                                    *)
(***************************************************************************)
\* transfer(frame, expected) of the operation op, past ensureReady
StartedTransfer(s, c, caller, w, beh, op, frame, expected) ==
    [t \in Slots |->
        IF t = s
        THEN [IdlePoll EXCEPT !.pc = "write", !.caller = caller, !.c = c, !.w = w,
                              !.n = (ticks % (MaxTicks + 1)) + 1, !.beh = beh,
                              !.overlap = ExchangeSlots # {},
                              !.op = op, !.req = frame, !.expected = expected]
        ELSE IF InExchange(polls[t]) THEN [polls[t] EXCEPT !.overlap = TRUE]
        ELSE polls[t]]

StartTransfer(s, c, caller, w, beh, op, frame, expected) ==
    polls' = StartedTransfer(s, c, caller, w, beh, op, frame, expected)

\* readInputRegisters(AI_START_REGISTER, AI_CHANNELS)
PollRequest == ReadRequest(AI_START_REGISTER, AI_CHANNELS)

StartExchange(s, c, caller, w, beh) ==
    StartTransfer(s, c, caller, w, beh, "readInputRegisters", PollRequest,
                  ExpectedLength(AI_CHANNELS))

TickWithin(limit, behaviours) ==
    \E i \in DOMAIN intervals :
    /\ ticks < limit
    /\ FreeSlots # {}
    /\ now' = now + 1
    /\ LET s == CHOOSE t \in FreeSlots : \A u \in FreeSlots : t <= u
       IN  IF clientRef = 0
           THEN UNCHANGED <<polls, status, ticks, anyFailed>>
           ELSE IF ~Ready(clientRef)
           THEN /\ status' = MsgNotConnected
                /\ anyFailed' = TRUE
                /\ UNCHANGED <<polls, ticks>>
           ELSE /\ \E beh \in behaviours :
                     StartExchange(s, clientRef, "poll", intervals[i].w, beh)
                /\ ticks' = ticks + 1
                /\ UNCHANGED <<status, anyFailed>>
    /\ UNCHANGED <<appVars, handlerVars, portVars, clients, dataPoints, idbQ, store, tsv>>

TickFrom(behaviours) == TickWithin(MaxTicks, behaviours)

Tick == TickFrom(DeviceBehaviours)

(***************************************************************************)
(* writer.write(frame) completes: the device has the request and answers   *)
(* as it chooses; transfer takes startTime and enters its read loop.       *)
(***************************************************************************)
WriteDone(s) ==
    /\ polls[s].pc = "write"
    /\ LET p   == polls[s]
           out == IF IsUsb(p.c) THEN Wait(<<>>, rx)
                  ELSE SerialLoop(<<>>, FALSE, rx, clients[p.c].rs, p.expected)
       IN  /\ devOut' = devOut \o Answer(p.beh, p.n, p.req)
           /\ rx' = out.rx
           /\ readQ' = IF out.kind = "wait" THEN Append(readQ, s) ELSE readQ
           /\ anyFailed' = (anyFailed \/ out.kind = "fail")
           /\ Resume(s, out)
    /\ UNCHANGED <<appVars, handlerVars, clients, dataPoints, store, tsv, now, ticks>>

(***************************************************************************)
(* A chunk from the device arrives at the host.  With no open port it is   *)
(* lost; with a read pending it resolves the oldest one, whose transfer    *)
(* runs on; otherwise it is queued in the stream (serial) or stays in the  *)
(* device until the host asks for it (USB).  A transferIn whose transfer   *)
(* has already timed out (0 in readQ) still takes the packet it gets.      *)
(***************************************************************************)
Arrived(p, chunk) ==
    IF IsUsb(p.c) THEN UsbResult(chunk, <<>>)
    ELSE SerialLoop(p.buf \o chunk, p.late, <<>>, clients[p.c].rs, p.expected)

\* the oldest chunk on the wire leaves it
Arrival ==
    /\ devOut # <<>>
    /\ \A c \in OpenClients : IsUsb(c) => readQ # <<>>
    /\ devOut' = Tail(devOut)

Deliver ==
    /\ Arrival
    /\ IF OpenClients = {}
       THEN UNCHANGED <<rx, readQ, polls, status, idbQ, anyFailed>>
       ELSE IF readQ = <<>>
       THEN /\ rx' = Append(rx, Head(devOut))
            /\ UNCHANGED <<readQ, polls, status, idbQ, anyFailed>>
       ELSE IF Head(readQ) = 0
       THEN /\ readQ' = Tail(readQ)
            /\ UNCHANGED <<rx, polls, status, idbQ, anyFailed>>
       ELSE LET s   == Head(readQ)
                out == Arrived(polls[s], Head(devOut))
            IN  /\ readQ' = IF out.kind = "wait" THEN Append(Tail(readQ), s) ELSE Tail(readQ)
                /\ anyFailed' = (anyFailed \/ out.kind = "fail")
                /\ Resume(s, out)
                /\ UNCHANGED rx
    /\ UNCHANGED <<appVars, handlerVars, clients, dataPoints, store, tsv, now, ticks>>

(***************************************************************************)
(* More than 1000 ms have passed since the transfer of slot s began to     *)
(* wait.  The serial client looks at the clock only before a read; the USB *)
(* client's timer rejects the race, and its transferIn stays pending.      *)
(***************************************************************************)
Abandon(q, s) == [i \in 1..Len(q) |-> IF q[i] = s THEN 0 ELSE q[i]]

Elapse(s) ==
    /\ polls[s].pc = "read"
    /\ ~polls[s].late
    /\ IF IsUsb(polls[s].c)
       THEN /\ readQ' = Abandon(readQ, s)
            /\ anyFailed' = TRUE
            /\ Resume(s, UsbTimeout(rx))
       ELSE /\ polls' = [polls EXCEPT ![s].late = TRUE]
            /\ UNCHANGED <<readQ, status, idbQ, anyFailed>>
    /\ UNCHANGED <<appVars, handlerVars, rx, devOut, clients, dataPoints, store, tsv, now,
                   ticks>>

(***************************************************************************)
(* IndexedDB runs the requests in the order their transactions were        *)
(* created; the code waiting for the oldest request runs on to its next    *)
(* wait.  updateDataHistory: addDataPoint, then (not recording)            *)
(* keepLatestPoints = getDataPointCount and, over the cap, a cursor        *)
(* deleting count - maxPoints records; then updateChartData = getAll.      *)
(***************************************************************************)
HeadIs(op, who) == idbQ # <<>> /\ Head(idbQ).op = op /\ Head(idbQ).who = who

Request(op, who, s) == [op |-> op, who |-> who, s |-> s, point |-> <<>>]

IdbPollAdd(s) ==
    /\ HeadIs("add", "poll") /\ Head(idbQ).s = s
    /\ store' = AddDataPoint(store, Head(idbQ).point)
    /\ IF polls[s].w = 0
       THEN /\ polls' = [polls EXCEPT ![s].pc = "count"]
            /\ idbQ' = Append(Tail(idbQ), Request("count", "poll", s))
       ELSE /\ polls' = [polls EXCEPT ![s].pc = "getall"]
            /\ idbQ' = Append(Tail(idbQ), Request("getAll", "poll", s))
    /\ UNCHANGED <<appVars, handlerVars, portVars, clients, dataPoints, status, tsv,
                   now, ticks, anyFailed>>

IdbPollCount(s) ==
    /\ HeadIs("count", "poll") /\ Head(idbQ).s = s
    /\ IF Len(store) <= MAX_POINTS_IN_MEMORY
       THEN /\ polls' = [polls EXCEPT ![s].pc = "getall"]
            /\ idbQ' = Append(Tail(idbQ), Request("getAll", "poll", s))
       ELSE /\ polls' = [polls EXCEPT ![s].pc = "delete"]
            /\ idbQ' = Append(Tail(idbQ),
                   [Request("delete", "poll", s) EXCEPT
                       !.point = Len(store) - MAX_POINTS_IN_MEMORY])
    /\ UNCHANGED <<appVars, handlerVars, portVars, clients, dataPoints, status, store,
                   tsv, now, ticks, anyFailed>>

IdbPollDelete(s) ==
    /\ HeadIs("delete", "poll") /\ Head(idbQ).s = s
    /\ store' = DeleteOldest(store, Head(idbQ).point)
    /\ polls' = [polls EXCEPT ![s].pc = "getall"]
    /\ idbQ' = Append(Tail(idbQ), Request("getAll", "poll", s))
    /\ UNCHANGED <<appVars, handlerVars, portVars, clients, dataPoints, status, tsv,
                   now, ticks, anyFailed>>

\* updateChartData's getAll resolves; back in pollOnce: writeRow when the
\* closure's tsvWriter is set, then setStatus('Polling')
IdbPollGetAll(s) ==
    /\ HeadIs("getAll", "poll") /\ Head(idbQ).s = s
    /\ idbQ' = Tail(idbQ)
    /\ dataPoints' = DisplayPoints(store, polls[s].w)
    /\ IF polls[s].w = 0
       THEN /\ status' = "Polling"
            /\ polls' = [polls EXCEPT ![s] = IdlePoll]
            /\ UNCHANGED tsv
       ELSE IF tsv[polls[s].w].state # "open"
       THEN /\ status' = MsgWriterClosed
            /\ polls' = [polls EXCEPT ![s] = IdlePoll]
            /\ UNCHANGED tsv
       ELSE /\ tsv' = [tsv EXCEPT ![polls[s].w].rows =
                          Append(@, [timestamp |-> now, aiRaw |-> polls[s].aiRaw])]
            /\ polls' = [polls EXCEPT ![s].pc = "row"]
            /\ UNCHANGED status
    /\ UNCHANGED <<appVars, handlerVars, portVars, clients, store, now, ticks, anyFailed>>

RowDone(s) ==
    /\ polls[s].pc = "row"
    /\ status' = "Polling"
    /\ polls' = [polls EXCEPT ![s] = IdlePoll]
    /\ UNCHANGED <<appVars, handlerVars, portVars, clients, dataPoints, idbQ, store,
                   tsv, now, ticks, anyFailed>>

(***************************************************************************)
(* handleConnect (reached through handleToggleConnection while connected   *)
(* is false; clientRef.current is then null, so its first branch is not    *)
(* taken): clearAllData, new client, client.connect() = requestPort, open, *)
(* getReader/getWriter; then clientRef, connected, acquiring.              *)
(***************************************************************************)
\* the client object handleConnect constructs; one that fails to connect is dropped
NewClient == nclients + 1

ConnectClick ==
    /\ ~connected /\ conn = "idle" /\ clientRef = 0
    /\ nclients < MaxConnects
    /\ conn' = "clear"
    /\ discDone' = FALSE
    /\ idbQ' = Append(idbQ, Request("clear", "conn", 0))
    /\ UNCHANGED <<appVars, portVars, clients, polls, dataPoints, status, store, tsv, now,
                   ticks, disc, nclients, save, nwriters, anyFailed>>

IdbConnClear ==
    /\ HeadIs("clear", "conn")
    /\ idbQ' = Tail(idbQ)
    /\ store' = <<>>
    /\ dataPoints' = <<>>
    /\ conn' = "request"
    /\ UNCHANGED <<appVars, portVars, clients, polls, status, tsv, now, ticks, disc,
                   nclients, save, nwriters, discDone, anyFailed>>

\* the catch branch of handleConnect (clientRef.current is still null)
ConnectCatch(msg) ==
    /\ connected' = FALSE
    /\ acquiring' = FALSE
    /\ pollTimer' = PollingEffect(FALSE, tsvWriter)
    /\ intervals' = EffectIntervals(FALSE, tsvWriter, pollingRate)
    /\ UNCHANGED <<pollingRate, calVars>>
    /\ status' = msg
    /\ conn' = "idle"

\* the user dismisses the port chooser: requestPort rejects with NotFoundError
ConnectCancel ==
    /\ conn = "request"
    /\ ConnectCatch("Device selection cancelled")
    /\ UNCHANGED <<tsvWriter, clientRef, portVars, clients, polls, dataPoints, idbQ, store,
                   tsv, now, ticks, disc, nclients, save, nwriters, discDone, anyFailed>>

\* the user picks the port: this.port is set and port.open() is called
ConnectChoose ==
    /\ conn = "request"
    /\ clients' = [clients EXCEPT ![NewClient].port = TRUE]
    /\ conn' = "open"
    /\ UNCHANGED <<appVars, portVars, polls, dataPoints, status, idbQ, store, tsv, now,
                   ticks, disc, nclients, save, nwriters, discDone, anyFailed>>

ConnectOpenFail ==
    /\ conn = "open"
    /\ ConnectCatch("Failed to open serial port")
    /\ clients' = [clients EXCEPT ![NewClient] = NoClient]
    /\ UNCHANGED <<tsvWriter, clientRef, portVars, polls, dataPoints, idbQ, store,
                   tsv, now, ticks, disc, nclients, save, nwriters, discDone, anyFailed>>

\* port.open() has resolved and the port has no readable or writable stream:
\* connect throws, the client (never stored in clientRef) is dropped with its
\* port open
ConnectStreamsFail ==
    /\ conn = "open"
    /\ ConnectCatch("Port streams are not available")
    /\ clients' = [clients EXCEPT ![NewClient].opened = TRUE]
    /\ nclients' = NewClient
    /\ UNCHANGED <<tsvWriter, clientRef, portVars, polls, dataPoints, idbQ, store,
                   tsv, now, ticks, disc, save, nwriters, discDone, anyFailed>>

ConnectOpened ==
    /\ conn = "open"
    /\ clients' = [clients EXCEPT ![NewClient].opened = TRUE, ![NewClient].reader = TRUE,
                                  ![NewClient].writer = TRUE, ![NewClient].rs = "active"]
    /\ nclients' = NewClient
    /\ rx' = <<>>
    /\ readQ' = <<>>
    /\ clientRef' = NewClient
    /\ connected' = TRUE
    /\ acquiring' = TRUE
    /\ pollTimer' = PollingEffect(TRUE, tsvWriter)
    /\ intervals' = EffectIntervals(TRUE, tsvWriter, pollingRate)
    /\ UNCHANGED <<pollingRate, calVars>>
    /\ status' = "Connected"
    /\ conn' = "idle"
    /\ UNCHANGED <<tsvWriter, devOut, polls, dataPoints, idbQ, store, tsv, now, ticks,
                   disc, save, nwriters, discDone, anyFailed>>

(***************************************************************************)
(* handleDisconnect: setAcquiring(false), stopPolling(), then              *)
(* client.disconnect() = reader.cancel(), releaseLock, writer.close(),     *)
(* port.close(); then clientRef = null, clearAllData, setDataPoints([]),   *)
(* and finally setConnected(false), setStatus('Disconnected').             *)
(* reader.cancel() closes the stream: every pending read resolves with     *)
(* done, and those transfers throw before anything else runs.              *)
(***************************************************************************)
ReadCancelled(s) == polls[s].pc = "read" /\ polls[s].c = clientRef

DisconnectClick ==
    /\ connected /\ disc = "idle" /\ clientRef # 0
    /\ acquiring' = FALSE
    /\ pollTimer' = stopPolling
    /\ intervals' = clearInterval(intervals, pollTimer)
    /\ UNCHANGED <<pollingRate, calVars>>
    /\ clients' = [clients EXCEPT ![clientRef].rs = "cancelled"]
    /\ polls' = [s \in Slots |-> IF ReadCancelled(s) THEN IdlePoll ELSE polls[s]]
    /\ status' = IF \E s \in Slots : ReadCancelled(s) THEN MsgClosed ELSE status
    /\ anyFailed' = (anyFailed \/ \E s \in Slots : ReadCancelled(s))
    /\ readQ' = <<>>
    /\ rx' = <<>>
    /\ disc' = "cancel"
    /\ UNCHANGED <<connected, tsvWriter, clientRef, devOut, dataPoints, idbQ, store, tsv,
                   now, ticks, conn, nclients, save, nwriters, discDone>>

DiscCancelled ==
    /\ disc = "cancel"
    /\ clients' = [clients EXCEPT ![clientRef].rs = "released", ![clientRef].reader = FALSE]
    /\ disc' = "wclose"
    /\ UNCHANGED <<appVars, portVars, polls, dataPoints, status, idbQ, store, tsv, now,
                   ticks, conn, nclients, save, nwriters, discDone, anyFailed>>

\* writer.close() resolves once the writes before it have completed
DiscWriterClosed ==
    /\ disc = "wclose"
    /\ \A s \in Slots : ~(polls[s].pc = "write" /\ polls[s].c = clientRef)
    /\ clients' = [clients EXCEPT ![clientRef].writer = FALSE]
    /\ disc' = "pclose"
    /\ UNCHANGED <<appVars, portVars, polls, dataPoints, status, idbQ, store, tsv, now,
                   ticks, conn, nclients, save, nwriters, discDone, anyFailed>>

DiscPortClosed ==
    /\ disc = "pclose"
    /\ clients' = [clients EXCEPT ![clientRef].port = FALSE, ![clientRef].opened = FALSE]
    /\ clientRef' = 0
    /\ idbQ' = Append(idbQ, Request("clear", "disc", 0))
    /\ disc' = "clear"
    /\ UNCHANGED <<connected, acquiring, tsvWriter, pollTimer, pollingRate, intervals, calVars,
                   portVars, polls, dataPoints,
                   status, store, tsv, now, ticks, conn, nclients, save, nwriters,
                   discDone, anyFailed>>

\* a handleDisconnect that leaves the database as it is
IdbDiscNoClear ==
    /\ HeadIs("clear", "disc")
    /\ idbQ' = Tail(idbQ)
    /\ dataPoints' = <<>>
    /\ connected' = FALSE
    /\ status' = "Disconnected"
    /\ disc' = "idle"
    /\ discDone' = TRUE
    /\ UNCHANGED <<acquiring, tsvWriter, clientRef, pollTimer, pollingRate, intervals, calVars,
                   portVars, clients, polls,
                   store, tsv, now, ticks, conn, nclients, save, nwriters, anyFailed>>

IdbDiscClear ==
    /\ HeadIs("clear", "disc")
    /\ idbQ' = Tail(idbQ)
    /\ store' = <<>>
    /\ dataPoints' = <<>>
    /\ connected' = FALSE
    /\ status' = "Disconnected"
    /\ disc' = "idle"
    /\ discDone' = TRUE
    /\ UNCHANGED <<acquiring, tsvWriter, clientRef, pollTimer, pollingRate, intervals, calVars,
                   portVars, clients, polls,
                   tsv, now, ticks, conn, nclients, save, nwriters, anyFailed>>

(***************************************************************************)
(* handleStartSave: createTsvWriter (file chooser, createWritable,         *)
(* writeHeader), clearAllData, setDataPoints([]), setTsvWriter(writer).    *)
(* The render that follows rebuilds pollOnce and startPolling, and the     *)
(* polling effect re-arms the timer with the new pollOnce.                 *)
(***************************************************************************)
NoSave == [pc |-> "idle", w |-> 0]

StartSaveClick ==
    /\ tsvWriter = 0 /\ save.pc = "idle"
    /\ nwriters < MaxWriters
    /\ save' = [pc |-> "pick", w |-> 0]
    /\ UNCHANGED <<appVars, portVars, clients, polls, dataPoints, status, idbQ, store, tsv,
                   now, ticks, conn, disc, nclients, nwriters, discDone, anyFailed>>

\* the user dismisses the file chooser: AbortError, caught, nothing is set
SaveAbort ==
    /\ save.pc = "pick"
    /\ save' = NoSave
    /\ UNCHANGED <<appVars, portVars, clients, polls, dataPoints, status, idbQ, store, tsv,
                   now, ticks, conn, disc, nclients, nwriters, discDone, anyFailed>>

\* the file is chosen and its writable created: writeHeader is called
SavePicked ==
    /\ save.pc = "pick"
    /\ nwriters' = nwriters + 1
    /\ save' = [pc |-> "header", w |-> nwriters + 1]
    /\ tsv' = [tsv EXCEPT ![nwriters + 1] = [state |-> "open", header |-> 0, rows |-> <<>>]]
    /\ UNCHANGED <<appVars, portVars, clients, polls, dataPoints, status, idbQ, store, now,
                   ticks, conn, disc, nclients, discDone, anyFailed>>

\* a createTsvWriter that returns the writer without writing the header
SaveHeaderSkipped ==
    /\ save.pc = "header"
    /\ save' = [save EXCEPT !.pc = "clear"]
    /\ idbQ' = Append(idbQ, Request("clear", "start", 0))
    /\ UNCHANGED <<appVars, portVars, clients, polls, dataPoints, status, store, tsv, now,
                   ticks, conn, disc, nclients, nwriters, discDone, anyFailed>>

\* the write of the header is done and createTsvWriter returns the writer:
\* clearAllData
SaveHeaderDone ==
    /\ save.pc = "header"
    /\ tsv' = [tsv EXCEPT ![save.w].header = @ + 1]
    /\ save' = [save EXCEPT !.pc = "clear"]
    /\ idbQ' = Append(idbQ, Request("clear", "start", 0))
    /\ UNCHANGED <<appVars, portVars, clients, polls, dataPoints, status, store, now,
                   ticks, conn, disc, nclients, nwriters, discDone, anyFailed>>

IdbStartClear ==
    /\ HeadIs("clear", "start")
    /\ idbQ' = Tail(idbQ)
    /\ store' = <<>>
    /\ dataPoints' = <<>>
    /\ tsvWriter' = save.w
    /\ pollTimer' = PollingEffect(acquiring, save.w)
    /\ intervals' = EffectIntervals(acquiring, save.w, pollingRate)
    /\ UNCHANGED <<pollingRate, calVars>>
    /\ status' = "Saving data to file"
    /\ save' = NoSave
    /\ UNCHANGED <<connected, acquiring, clientRef, portVars, clients, polls, tsv, now,
                   ticks, conn, disc, nclients, nwriters, discDone, anyFailed>>

(***************************************************************************)
(* handleStopSave: tsvWriter.close(), setTsvWriter(null), keepLatestPoints,*)
(* updateChartData (of the render in which tsvWriter was still set).       *)
(***************************************************************************)
StopSaveClick ==
    /\ tsvWriter # 0 /\ save.pc = "idle"
    /\ tsv' = [tsv EXCEPT ![tsvWriter].state = "closed"]
    /\ save' = [pc |-> "close", w |-> tsvWriter]
    /\ UNCHANGED <<appVars, portVars, clients, polls, dataPoints, status, idbQ, store, now,
                   ticks, conn, disc, nclients, nwriters, discDone, anyFailed>>

StopClosed ==
    /\ save.pc = "close"
    /\ tsvWriter' = 0
    /\ pollTimer' = PollingEffect(acquiring, 0)
    /\ intervals' = EffectIntervals(acquiring, 0, pollingRate)
    /\ UNCHANGED <<pollingRate, calVars>>
    /\ idbQ' = Append(idbQ, Request("count", "stop", 0))
    /\ save' = [save EXCEPT !.pc = "count"]
    /\ UNCHANGED <<connected, acquiring, clientRef, portVars, clients, polls, dataPoints,
                   status, store, tsv, now, ticks, conn, disc, nclients, nwriters,
                   discDone, anyFailed>>

IdbStopCount ==
    /\ HeadIs("count", "stop")
    /\ IF Len(store) <= MAX_POINTS_IN_MEMORY
       THEN /\ save' = [save EXCEPT !.pc = "getall"]
            /\ idbQ' = Append(Tail(idbQ), Request("getAll", "stop", 0))
       ELSE /\ save' = [save EXCEPT !.pc = "delete"]
            /\ idbQ' = Append(Tail(idbQ),
                   [Request("delete", "stop", 0) EXCEPT
                       !.point = Len(store) - MAX_POINTS_IN_MEMORY])
    /\ UNCHANGED <<appVars, portVars, clients, polls, dataPoints, status, store, tsv, now,
                   ticks, conn, disc, nclients, nwriters, discDone, anyFailed>>

IdbStopDelete ==
    /\ HeadIs("delete", "stop")
    /\ store' = DeleteOldest(store, Head(idbQ).point)
    /\ save' = [save EXCEPT !.pc = "getall"]
    /\ idbQ' = Append(Tail(idbQ), Request("getAll", "stop", 0))
    /\ UNCHANGED <<appVars, portVars, clients, polls, dataPoints, status, tsv, now,
                   ticks, conn, disc, nclients, nwriters, discDone, anyFailed>>

IdbStopGetAll ==
    /\ HeadIs("getAll", "stop")
    /\ idbQ' = Tail(idbQ)
    /\ dataPoints' = DisplayPoints(store, save.w)
    /\ status' = "Stopped saving"
    /\ save' = NoSave
    /\ UNCHANGED <<appVars, portVars, clients, polls, store, tsv, now, ticks, conn, disc,
                   nclients, nwriters, discDone, anyFailed>>

(***************************************************************************)
(* The application after its first render: disconnected, nothing stored,   *)
(* the database open.                                                      *)
(***************************************************************************)
\* the state after construction, but for the calls in progress, the object
\* store and the cookie (both are kept by the browser from one page load to
\* the next) and the calibration set loaded from the cookie
InitApp ==
    /\ connected = FALSE
    /\ acquiring = FALSE
    /\ status = "Disconnected"
    /\ tsvWriter = 0
    /\ dataPoints = <<>>
    /\ clientRef = 0
    /\ pollTimer = NoTimer
    /\ pollingRate = POLLING_OPTIONS[1]
    /\ intervals = <<>>
    /\ clients = [c \in ClientIds |-> NoClient]
    /\ conn = "idle"
    /\ disc = "idle"
    /\ save = NoSave
    /\ rx = <<>>
    /\ readQ = <<>>
    /\ devOut = <<>>
    /\ idbQ = <<>>
    /\ tsv = [w \in WriterIds |-> [state |-> "none", header |-> 0, rows |-> <<>>]]
    /\ now = 0
    /\ ticks = 0
    /\ nclients = 0
    /\ nwriters = 0
    /\ discDone = FALSE
    /\ anyFailed = FALSE

\* a first page load: no cookie, an empty object store
InitButPolls ==
    /\ InitApp
    /\ store = <<>>
    /\ cookie = NoCookie
    /\ aiCalibration = loadAiCalibration(NoCookie, AI_CHANNELS)

Init ==
    /\ InitButPolls
    /\ polls = [s \in Slots |-> IdlePoll]

\* pollOnce and the device.  The store never holds more than MaxTicks records
\* here, so keepLatestPoints never reaches its cursor (see SpecStore for it).
PollNext ==
    \/ Tick
    \/ \E s \in Slots : WriteDone(s)
    \/ Deliver
    \/ \E s \in Slots : Elapse(s)
    \/ \E s \in Slots : IdbPollAdd(s)
    \/ \E s \in Slots : IdbPollCount(s)
    \/ \E s \in Slots : IdbPollGetAll(s)

ConnNext ==
    \/ ConnectClick \/ IdbConnClear \/ ConnectCancel \/ ConnectChoose
    \/ ConnectOpenFail \/ ConnectOpened
    \/ DisconnectClick \/ DiscCancelled \/ DiscWriterClosed \/ DiscPortClosed
    \/ IdbDiscClear

SaveHandlerNext ==
    \/ StartSaveClick \/ SaveAbort \/ SavePicked \/ SaveHeaderDone \/ IdbStartClear
    \/ StopSaveClick \/ StopClosed \/ IdbStopCount \/ IdbStopGetAll

SaveNext == (\E s \in Slots : RowDone(s)) \/ SaveHandlerNext

\* connecting, polling and disconnecting, never recording
Next == PollNext \/ ConnNext

Spec == Init /\ [][Next]_vars

\* the same with recording, for the first MaxRecConnects connections that succeed
RecConnectClick == nclients < MaxRecConnects /\ ConnectClick

RecConnNext ==
    \/ RecConnectClick \/ IdbConnClear \/ ConnectChoose \/ ConnectOpened
    \/ DisconnectClick \/ DiscCancelled \/ DiscWriterClosed \/ DiscPortClosed
    \/ IdbDiscClear

NextRec == PollNext \/ RecConnNext \/ SaveNext

SpecRec == Init /\ [][NextRec]_vars

\* one connection, never recording, polled while the device answers in full
\* length with a valid CRC and any of the byte count fields of CountBehaviours
TickCounted == TickFrom(CountBehaviours)

NextCount ==
    \/ TickCounted
    \/ \E s \in Slots : WriteDone(s)
    \/ Deliver
    \/ \E s \in Slots : Elapse(s)
    \/ \E s \in Slots : IdbPollAdd(s)
    \/ \E s \in Slots : IdbPollCount(s)
    \/ \E s \in Slots : IdbPollGetAll(s)
    \/ RecConnNext

SpecCount == Init /\ [][NextCount]_vars

(***************************************************************************)
(* The polling rate select: setPollingRate(next).  startPolling depends on *)
(* pollingRate.valueMs, so the effect of the next render runs: the cleanup *)
(* of the previous effect (stopPolling), then startPolling or stopPolling. *)
(***************************************************************************)
Rates == {POLLING_OPTIONS[i] : i \in 1..MaxRates}

SetPollingRate(ms) ==
    /\ ms # pollingRate
    /\ pollingRate' = ms
    /\ UNCHANGED calVars
    /\ pollTimer' = PollingEffect(acquiring, tsvWriter)
    /\ intervals' = EffectIntervals(acquiring, tsvWriter, ms)
    /\ UNCHANGED <<connected, acquiring, tsvWriter, clientRef, handlerVars, portVars,
                   clients, polls, dataPoints, status, idbQ, store, tsv, now, ticks,
                   anyFailed>>

\* the timer under every handler that touches it: connecting, disconnecting,
\* recording and the polling rate, with the ticks it delivers
NextTimer ==
    \/ Tick
    \/ ConnNext
    \/ SaveHandlerNext
    \/ \E ms \in Rates : SetPollingRate(ms)

SpecTimer == Init /\ [][NextTimer]_vars

\* the same, with a port that opens without streams
NextConnect == NextTimer \/ ConnectStreamsFail

SpecConnect == Init /\ [][NextConnect]_vars

(***************************************************************************)
(* The clients on their own: a caller that connects a client of either     *)
(* kind and calls readInputRegisters(AI_START_REGISTER, AI_CHANNELS) on    *)
(* it, taking each result or error as it comes.                            *)
(***************************************************************************)
ClientKinds == {"serial", "usb"}

XferConnect(kind) ==
    /\ nclients = 0
    /\ clients' = [clients EXCEPT ![1] = [kind |-> kind, port |-> TRUE,
                                          reader |-> kind = "serial",
                                          writer |-> kind = "serial",
                                          opened |-> TRUE, rs |-> "active",
                                          hc |-> "none"]]
    /\ nclients' = 1
    /\ UNCHANGED <<appVars, portVars, polls, dataPoints, status, idbQ, store, tsv, now,
                   ticks, conn, disc, save, nwriters, discDone, anyFailed>>

XferCall ==
    /\ nclients = 1 /\ Ready(1)
    /\ ticks < MaxTicks
    /\ FreeSlots # {}
    /\ \E beh \in XferBehaviours :
          StartExchange(CHOOSE t \in FreeSlots : \A u \in FreeSlots : t <= u,
                        1, "direct", 0, beh)
    /\ ticks' = ticks + 1
    /\ now' = now + 1
    /\ UNCHANGED <<appVars, handlerVars, portVars, clients, dataPoints, status, idbQ,
                   store, tsv, anyFailed>>

XferReturn(s) ==
    /\ polls[s].pc = "result"
    /\ polls' = [polls EXCEPT ![s] = IdlePoll]
    /\ UNCHANGED <<appVars, handlerVars, portVars, clients, dataPoints, status, idbQ,
                   store, tsv, now, ticks, anyFailed>>

NextXfer ==
    \/ \E kind \in ClientKinds : XferConnect(kind)
    \/ XferCall
    \/ \E s \in Slots : WriteDone(s)
    \/ Deliver
    \/ \E s \in Slots : Elapse(s)
    \/ \E s \in Slots : XferReturn(s)

SpecXfer == Init /\ [][NextXfer]_vars

\* nothing that can happen is put off for ever: a write that is under way
\* completes, bytes on the wire arrive, time passes, the caller takes results
\* (Deliver is the only action that takes a chunk off the wire, so fairness
\* of Arrival is fairness of Deliver)
FairXfer ==
    /\ SpecXfer
    /\ WF_vars(\E s \in Slots : WriteDone(s))
    /\ WF_devOut(Arrival)
    /\ WF_vars(\E s \in Slots : Elapse(s))
    /\ WF_vars(\E s \in Slots : XferReturn(s))

(***************************************************************************)
(* The four operations of a client, called by a caller that may call them  *)
(* before it connects the client, while it is connected and after its      *)
(* disconnect() has returned, each call made when the one before it has    *)
(* returned or thrown.  A call runs to its first wait (the write of the    *)
(* frame in transfer) or to the error it throws before that.               *)
(***************************************************************************)
AO_START_REGISTER == 256

\* the values handed to the write operations (some are wider than 16 bits)
ValueAt(k) == k * 600

ValuesOf(n) == [k \in 1..n |-> ValueAt(k)]

ValueCounts == {0, 1, MAX_WRITE_REGISTERS, MAX_WRITE_REGISTERS + 1}

ReadCalls ==
    {[op |-> "readInputRegisters", values |-> <<>>],
     [op |-> "readInputRegistersAsFloat32Abcd", values |-> <<>>]}

WriteCalls ==
    {[op |-> "writeSingleRegister", values |-> ValuesOf(1)]}
    \cup {[op |-> "writeMultipleHoldingRegisters", values |-> ValuesOf(n)] : n \in ValueCounts}

Calls == ReadCalls \cup WriteCalls

IsWrite(op) == op \in {"writeSingleRegister", "writeMultipleHoldingRegisters"}

\* the error thrown before the frame is built ("ok": none)
CallCheck(call) ==
    IF call.op = "writeMultipleHoldingRegisters" THEN WriteMultipleCheck(call.values)
    ELSE "ok"

CallRequest(call) ==
    CASE call.op = "readInputRegisters" -> PollRequest
      [] call.op = "readInputRegistersAsFloat32Abcd" ->
             Float32Request(AI_START_REGISTER, AI_CHANNELS \div 2)
      [] call.op = "writeSingleRegister" ->
             WriteSingleRequest(AO_START_REGISTER, call.values[1] % 65536)
      [] OTHER -> WriteMultipleRequest(AO_START_REGISTER, call.values)

CallExpected(call) ==
    CASE call.op = "readInputRegisters" -> ExpectedLength(AI_CHANNELS)
      [] call.op = "readInputRegistersAsFloat32Abcd" -> Float32Expected(AI_CHANNELS \div 2)
      [] OTHER -> WriteExpected

\* the frames of the calls, built once
CallRequests == [call \in Calls |-> IF CallCheck(call) = "ok" THEN CallRequest(call) ELSE <<>>]

\* what the device may do with the request of an operation
CallBehaviours(op) == IF IsWrite(op) THEN {"ack", "silent"} ELSE {"good", "silent"}

\* a call that throws before transfer writes anything
CallThrows(s, call, msg) ==
    /\ polls' = [polls EXCEPT ![s] = [IdlePoll EXCEPT !.pc = "result", !.caller = "direct",
                                                        !.c = 1, !.op = call.op,
                                                        !.values = call.values,
                                                        !.err = msg]]
    /\ UNCHANGED <<ticks, now>>

OpCall(call) ==
    /\ nclients <= 1
    /\ FreeSlots = Slots
    /\ LET s == CHOOSE t \in FreeSlots : \A u \in FreeSlots : t <= u
       IN  IF CallCheck(call) # "ok" THEN CallThrows(s, call, CallCheck(call))
           ELSE IF ~Ready(1) THEN CallThrows(s, call, MsgNotConnected)
           ELSE /\ ticks < MaxTicks
                /\ \E beh \in CallBehaviours(call.op) :
                      polls' = [StartedTransfer(s, 1, "direct", 0, beh, call.op,
                                                CallRequests[call], CallExpected(call))
                                    EXCEPT ![s].values = call.values]
                /\ ticks' = ticks + 1
                /\ now' = now + 1
    /\ UNCHANGED <<appVars, handlerVars, portVars, clients, dataPoints, status, idbQ,
                   store, tsv, anyFailed>>

\* client.disconnect(), called with no exchange under way, from its start to
\* its return: reader, writer and port (or device and endpoints) are null
OpsDisconnect ==
    /\ nclients = 1 /\ clients[1].port
    /\ ExchangeSlots = {}
    /\ clients' = [clients EXCEPT ![1].port = FALSE, ![1].reader = FALSE,
                                  ![1].writer = FALSE, ![1].opened = FALSE,
                                  ![1].rs = "closed"]
    /\ rx' = <<>>
    /\ readQ' = <<>>
    /\ UNCHANGED <<appVars, handlerVars, devOut, polls, dataPoints, status, idbQ, store,
                   tsv, now, ticks, anyFailed>>

NextOps ==
    \/ \E kind \in ClientKinds : XferConnect(kind)
    \/ OpsDisconnect
    \/ \E call \in Calls : OpCall(call)
    \/ \E s \in Slots : WriteDone(s)
    \/ Deliver
    \/ \E s \in Slots : Elapse(s)
    \/ \E s \in Slots : XferReturn(s)

SpecOps == Init /\ [][NextOps]_vars

(***************************************************************************)
(* buildFrame and the CRC validation of transfer on their own: a frame is  *)
(* built for a slave address, a function code and a payload, and is then   *)
(* taken as a response of its own length, as it is or with one bit         *)
(* flipped (bit b of byte i).                                              *)
(***************************************************************************)
SlaveIds == {1, 17, 247}

FunctionCodes == {3, 4, 6, 16}

PayloadBytes == {0, 1, 128, 255}

Payloads == UNION {[1..n -> PayloadBytes] : n \in 0..MaxPayload}

InitFrame ==
    /\ InitButPolls
    /\ \E a \in SlaveIds, f \in FunctionCodes, payload \in Payloads :
          polls = [s \in Slots |->
                     IF s = 1 THEN [IdlePoll EXCEPT !.pc = "input", !.op = "buildFrame",
                                                    !.slaveId = a, !.fc = f,
                                                    !.values = payload]
                     ELSE IdlePoll]

FrameUnchanged ==
    UNCHANGED <<appVars, handlerVars, portVars, clients, dataPoints, status, idbQ,
                store, tsv, now, ticks, anyFailed>>

BuildFrame ==
    /\ polls[1].pc = "input"
    /\ polls' = [polls EXCEPT ![1].pc = "built",
                              ![1].req = FrameOf(polls[1].slaveId, polls[1].fc,
                                                 polls[1].values)]
    /\ FrameUnchanged

\* the CRC validation of transfer, applied to resp
Validated(resp) ==
    [polls EXCEPT ![1].pc = "result", ![1].resp = resp,
                  ![1].err = IF Validate(resp) = "ok" THEN "" ELSE Validate(resp)]

ValidateFrame ==
    /\ polls[1].pc = "built"
    /\ polls' = Validated(polls[1].req)
    /\ FrameUnchanged

FlipBit(frame, i, b) == [frame EXCEPT ![i] = XorByte[@][2 ^ b]]

ValidateFlipped(i, b) ==
    /\ polls[1].pc = "built"
    /\ i \in 1..Len(polls[1].req)
    /\ polls' = Validated(FlipBit(polls[1].req, i, b))
    /\ FrameUnchanged

NextFrame ==
    \/ BuildFrame
    \/ ValidateFrame
    \/ \E i \in 1..(MaxPayload + 4), b \in 0..7 : ValidateFlipped(i, b)

SpecFrame == InitFrame /\ [][NextFrame]_vars

(***************************************************************************)
(* The frames of the read and write operations and the decoding of the     *)
(* answer: one call of a connected client, readInputRegisters(start,       *)
(* count), readInputRegistersAsFloat32Abcd(start, count) or                *)
(* writeMultipleHoldingRegisters(start, values), from the frame it writes  *)
(* to the value it returns.  The device answers at once with a frame of    *)
(* valid CRC that holds the registers asked for (or the acknowledgement of *)
(* the write); its byte count field is that of its payload or is off by    *)
(* skew.                                                                   *)
(***************************************************************************)
CodecStarts == {AI_START_REGISTER, 255, AO_START_REGISTER, 5000, 65535}

ReadCounts == (1..MaxRegs) \cup {AI_CHANNELS}

WriteCounts == (1..MaxRegs) \cup {MAX_WRITE_REGISTERS}

\* register words at the edges of the signed range
EdgeWords == <<0, 32767, 32768, 65535, 258>>

WordsFrom(k, n) == [i \in 1..n |-> EdgeWords[((k + i) % Len(EdgeWords)) + 1]]

\* values handed to writeMultipleHoldingRegisters: negative, and wider than 16 bits
EdgeValues == <<0, -1, 65536, -32768, 32767, 65535, 70000>>

ValuesFrom(k, n) == [i \in 1..n |-> EdgeValues[((k + i) % Len(EdgeValues)) + 1]]

Patterns == 0..(Len(EdgeWords) - 1)

Skews == {-2, -1, 0, 1, 2}

\* the device's answer to the read request req: the registers asked for
RequestedRegisters(req) == 256 * req[5] + req[6]

ReadAnswer(req, k, skew) ==
    buildFrame(4, <<(2 * RequestedRegisters(req) + skew) % 256>>
                  \o WordBytes(WordsFrom(k, RequestedRegisters(req))))

IsRead(op) == op \in {"readInputRegisters", "readInputRegistersAsFloat32Abcd"}

InitCodec ==
    /\ InitButPolls
    /\ \E op \in {"readInputRegisters", "readInputRegistersAsFloat32Abcd",
                   "writeMultipleHoldingRegisters"},
          start \in CodecStarts, k \in Patterns :
          \/ /\ IsRead(op)
             /\ \E count \in ReadCounts, skew \in Skews :
                   polls = [s \in Slots |->
                              IF s = 1 THEN [IdlePoll EXCEPT !.pc = "input", !.op = op,
                                                             !.start = start,
                                                             !.count = count,
                                                             !.pattern = k, !.skew = skew]
                              ELSE IdlePoll]
          \/ /\ ~IsRead(op)
             /\ \E n \in WriteCounts :
                   polls = [s \in Slots |->
                              IF s = 1 THEN [IdlePoll EXCEPT !.pc = "input", !.op = op,
                                                             !.start = start,
                                                             !.values = ValuesFrom(k, n)]
                              ELSE IdlePoll]

\* the frame the call hands to transfer
CodecRequest(p) ==
    CASE p.op = "readInputRegisters" -> ReadRequest(p.start, p.count)
      [] p.op = "readInputRegistersAsFloat32Abcd" -> Float32Request(p.start, p.count)
      [] OTHER -> WriteMultipleRequest(p.start, p.values)

CodecExpected(p) ==
    CASE p.op = "readInputRegisters" -> ExpectedLength(p.count)
      [] p.op = "readInputRegistersAsFloat32Abcd" -> Float32Expected(p.count)
      [] OTHER -> WriteExpected

\* the call up to writer.write(frame) in transfer
CodecCall ==
    /\ polls[1].pc = "input"
    /\ polls' = [polls EXCEPT ![1].pc = "sent", ![1].req = CodecRequest(polls[1]),
                              ![1].expected = CodecExpected(polls[1])]
    /\ ticks' = ticks + 1
    /\ UNCHANGED <<appVars, handlerVars, portVars, clients, dataPoints, status, idbQ,
                   store, tsv, now, anyFailed>>

\* the rest of transfer (the first expected bytes of the answer, their CRC
\* check) and the decoding of the view
CodecReturn ==
    /\ polls[1].pc = "sent"
    /\ LET p      == polls[1]
           answer == IF IsRead(p.op) THEN ReadAnswer(p.req, p.pattern, p.skew)
                     ELSE AckFrame(p.req)
           out    == IF Len(answer) >= p.expected
                     THEN Checked(SubSeq(answer, 1, p.expected), <<>>, <<>>)
                     ELSE Fail(MsgTimeout, <<>>, <<>>, <<>>)
           range  == /\ out.kind = "ok"
                     /\ \/ p.op = "readInputRegisters" /\ DecodeFails(out.view)
                        \/ p.op = "readInputRegistersAsFloat32Abcd" /\ DecodeFails32(out.view)
       IN  polls' = [polls EXCEPT ![1].pc = "result", ![1].resp = out.resp,
                                  ![1].err = IF range THEN MsgRange ELSE out.msg,
                                  ![1].aiRaw = IF out.kind = "ok" THEN Returned(p.op, out.view)
                                               ELSE <<>>]
    /\ UNCHANGED <<appVars, handlerVars, portVars, clients, dataPoints, status, idbQ,
                   store, tsv, now, ticks, anyFailed>>

NextCodec == CodecCall \/ CodecReturn

SpecCodec == InitCodec /\ [][NextCodec]_vars

(***************************************************************************)
(* Long runs: one handler at a time, each run from its start to its end    *)
(* with nothing in between, the device answering every request well and at *)
(* once.  Recording is started before poll MaxStartAt + 1 at the latest,    *)
(* and the run ends when it is stopped.                                    *)
(***************************************************************************)
Quiet ==
    /\ conn = "idle" /\ disc = "idle" /\ save.pc = "idle"
    /\ polls = [s \in Slots |-> IdlePoll]
    /\ idbQ = <<>> /\ devOut = <<>>

\* handleConnect, successful
ConnectOk ==
    /\ Quiet /\ ~connected /\ nclients = 0
    /\ clients' = [clients EXCEPT ![1] = [NoClient EXCEPT !.port = TRUE, !.opened = TRUE,
                                              !.reader = TRUE, !.writer = TRUE,
                                              !.rs = "active"]]
    /\ nclients' = 1
    /\ clientRef' = 1
    /\ connected' = TRUE
    /\ acquiring' = TRUE
    /\ pollTimer' = PollingEffect(TRUE, tsvWriter)
    /\ intervals' = EffectIntervals(TRUE, tsvWriter, pollingRate)
    /\ UNCHANGED <<pollingRate, calVars>>
    /\ status' = "Connected"
    /\ store' = <<>>
    /\ dataPoints' = <<>>
    /\ UNCHANGED <<tsvWriter, portVars, polls, idbQ, tsv, now, ticks, conn, disc, save,
                   nwriters, discDone, anyFailed>>

\* what readInputRegisters returns on the device's well-formed answer, and the
\* physical values pollOnce computes from it
GoodRegisters == DecodeRegisters(Resp[1])

GoodPhysical == Physical(GoodRegisters)

\* a tick and its pollOnce to the end: readInputRegisters, updateDataHistory
\* (addDataPoint, keepLatestPoints when not recording), writeRow when
\* recording; st holds the store, the rows of the log file and the clock
AfterPoll(st, w, aiRaw, aiPhysical) ==
    LET added == AddDataPoint(st.store, StoredDataPoint(st.now + 1, aiRaw, aiPhysical))
    IN  [store |-> IF w = 0 THEN keepLatestPoints(added, MAX_POINTS_IN_MEMORY) ELSE added,
         rows  |-> IF w = 0 THEN st.rows
                   ELSE Append(st.rows, [timestamp |-> st.now + 1, aiRaw |-> aiRaw]),
         now   |-> st.now + 1]

RECURSIVE AfterPolls(_, _, _, _, _)
AfterPolls(st, w, aiRaw, aiPhysical, k) ==
    IF k > 0 /\ st.now >= 0
    THEN AfterPolls(AfterPoll(st, w, aiRaw, aiPhysical), w, aiRaw, aiPhysical, k - 1)
    ELSE st

\* k ticks one after the other, each pollOnce run to its end (updateChartData
\* and setStatus('Polling') included) before the next
PollOnceOk(k) ==
    /\ Quiet /\ pollTimer.armed /\ clientRef # 0 /\ Ready(clientRef)
    /\ ticks + k <= MaxAppend
    /\ nwriters = 0 \/ tsvWriter # 0
    /\ LET w  == pollTimer.w
           st == AfterPolls([store |-> store, now |-> now,
                             rows |-> IF w = 0 THEN <<>> ELSE tsv[w].rows], w,
                            GoodRegisters, GoodPhysical, k)
       IN  /\ store' = st.store
           /\ dataPoints' = DisplayPoints(st.store, w)
           /\ tsv' = IF w = 0 THEN tsv ELSE [tsv EXCEPT ![w].rows = st.rows]
           /\ now' = st.now
    /\ ticks' = ticks + k
    /\ status' = "Polling"
    /\ UNCHANGED <<appVars, handlerVars, portVars, clients, polls, idbQ, anyFailed>>

\* handleStartSave, the file chosen
StartSaveOk ==
    /\ Quiet /\ connected /\ tsvWriter = 0
    /\ nwriters < MaxWriters
    /\ ticks <= MaxStartAt
    /\ nwriters' = nwriters + 1
    /\ tsv' = [tsv EXCEPT ![nwriters + 1] = [state |-> "open", header |-> 1, rows |-> <<>>]]
    /\ store' = <<>>
    /\ dataPoints' = <<>>
    /\ tsvWriter' = nwriters + 1
    /\ pollTimer' = PollingEffect(acquiring, nwriters + 1)
    /\ intervals' = EffectIntervals(acquiring, nwriters + 1, pollingRate)
    /\ UNCHANGED <<pollingRate, calVars>>
    /\ status' = "Saving data to file"
    /\ UNCHANGED <<connected, acquiring, clientRef, portVars, clients, polls, idbQ, now,
                   ticks, conn, disc, nclients, save, discDone, anyFailed>>

\* handleStopSave
StopSaveOk ==
    /\ Quiet /\ tsvWriter # 0
    /\ tsv' = [tsv EXCEPT ![tsvWriter].state = "closed"]
    /\ tsvWriter' = 0
    /\ pollTimer' = PollingEffect(acquiring, 0)
    /\ intervals' = EffectIntervals(acquiring, 0, pollingRate)
    /\ UNCHANGED <<pollingRate, calVars>>
    /\ store' = keepLatestPoints(store, MAX_POINTS_IN_MEMORY)
    /\ dataPoints' = DisplayPoints(keepLatestPoints(store, MAX_POINTS_IN_MEMORY), tsvWriter)
    /\ status' = "Stopped saving"
    /\ UNCHANGED <<connected, acquiring, clientRef, portVars, clients, polls, idbQ, now,
                   ticks, conn, disc, nclients, save, nwriters, discDone, anyFailed>>

NextStore == ConnectOk \/ (\E k \in {1, Burst} : PollOnceOk(k)) \/ StartSaveOk \/ StopSaveOk

SpecStore == Init /\ [][NextStore]_vars

(***************************************************************************)
(* keepLatestPoints at its cursor.  The store is filled to its cap by      *)
(* bursts of polls that run to their end one after the other; from then on *)
(* the ticks and their polls are taken step by step, MaxTicks of them, the *)
(* device answering well, so that the requests of two polls (add, count,   *)
(* delete, getAll) interleave in the queue of IndexedDB.                   *)
(***************************************************************************)
FillStore == Len(store) < MAX_POINTS_IN_MEMORY /\ PollOnceOk(Burst)

TickFull ==
    /\ Len(store) >= MAX_POINTS_IN_MEMORY
    /\ TickWithin(MAX_POINTS_IN_MEMORY + MaxTicks, {"good"})

NextKeep ==
    \/ ConnectOk
    \/ FillStore
    \/ TickFull
    \/ \E s \in Slots : WriteDone(s)
    \/ Deliver
    \/ \E s \in Slots : IdbPollAdd(s)
    \/ \E s \in Slots : IdbPollCount(s)
    \/ \E s \in Slots : IdbPollDelete(s)
    \/ \E s \in Slots : IdbPollGetAll(s)

SpecKeep == Init /\ [][NextKeep]_vars

(***************************************************************************)
(* Connect requests that overlap.  The button calls handleConnect whenever *)
(* connected is false, also while an earlier handleConnect is waiting for  *)
(* clearAllData, for the port chooser or for port.open(); each call        *)
(* constructs its own client.  handleDisconnect and the disconnect() of a  *)
(* catch branch run from start to end; the reader.cancel() and the         *)
(* writer.close() of disconnect() succeed or reject (a stream that has     *)
(* errored rejects both).  No poll is followed here, and every port that   *)
(* opens has both of its streams.                                          *)
(***************************************************************************)
DisconnectOutcomes == {"ok", "cancel fails", "close fails"}

\* the client cl after its disconnect() has returned: the try block to its
\* end, or the catch block from the call that rejected
Disconnected(cl, outcome) ==
    CASE outcome = "ok" ->
             [cl EXCEPT !.port = FALSE, !.reader = FALSE, !.writer = FALSE,
                        !.opened = FALSE, !.rs = "closed"]
      [] outcome = "cancel fails" ->
             [cl EXCEPT !.port = FALSE, !.reader = FALSE, !.writer = FALSE]
      [] OTHER ->
             [cl EXCEPT !.port = FALSE, !.reader = FALSE, !.writer = FALSE,
                        !.rs = "released"]

\* the click: clientRef.current is disconnected if there is one, then
\* clearAllData is awaited
DuoConnectClick(outcome) ==
    /\ ~connected /\ disc = "idle"
    /\ nclients < MaxConnects
    /\ nclients' = nclients + 1
    /\ clients' = [c \in ClientIds |->
                     IF c = nclients + 1 THEN [NoClient EXCEPT !.hc = "clear"]
                     ELSE IF c = clientRef THEN Disconnected(clients[c], outcome)
                     ELSE clients[c]]
    /\ clientRef' = 0
    /\ discDone' = FALSE
    /\ UNCHANGED <<connected, acquiring, tsvWriter, pollTimer, pollingRate, intervals,
                   calVars, portVars, polls, dataPoints, status, idbQ, store, tsv, now,
                   ticks, conn, disc, save, nwriters, anyFailed>>

\* clearAllData has resolved: setDataPoints([]), new client, client.connect()
\* up to requestPort
DuoCleared(c) ==
    /\ clients[c].hc = "clear"
    /\ clients' = [clients EXCEPT ![c].hc = "request"]
    /\ store' = <<>>
    /\ dataPoints' = <<>>
    /\ UNCHANGED <<appVars, handlerVars, portVars, polls, status, idbQ, tsv, now, ticks,
                   anyFailed>>

\* the catch branch of the handleConnect of client c
DuoCatch(c, msg, outcome) ==
    /\ clients' = [d \in ClientIds |->
                     IF d = c THEN [NoClient EXCEPT !.hc = "failed"]
                     ELSE IF d = clientRef THEN Disconnected(clients[d], outcome)
                     ELSE clients[d]]
    /\ clientRef' = 0
    /\ connected' = FALSE
    /\ acquiring' = FALSE
    /\ pollTimer' = PollingEffect(FALSE, tsvWriter)
    /\ intervals' = EffectIntervals(FALSE, tsvWriter, pollingRate)
    /\ status' = msg
    /\ UNCHANGED <<tsvWriter, pollingRate, calVars, handlerVars, portVars, polls,
                   dataPoints, idbQ, store, tsv, now, ticks, anyFailed>>

DuoCancel(c, outcome) ==
    /\ clients[c].hc = "request"
    /\ DuoCatch(c, "Device selection cancelled", outcome)

DuoChoose(c) ==
    /\ clients[c].hc = "request"
    /\ clients' = [clients EXCEPT ![c].port = TRUE, ![c].hc = "open"]
    /\ UNCHANGED <<appVars, handlerVars, portVars, polls, dataPoints, status, idbQ, store,
                   tsv, now, ticks, anyFailed>>

DuoOpenFail(c, outcome) ==
    /\ clients[c].hc = "open"
    /\ DuoCatch(c, "Failed to open serial port", outcome)

\* port.open() has resolved: reader and writer, connect returns;
\* clientRef.current = client, setConnected(true), setAcquiring(true)
DuoOpened(c) ==
    /\ clients[c].hc = "open"
    /\ clients' = [clients EXCEPT ![c].opened = TRUE, ![c].reader = TRUE,
                                  ![c].writer = TRUE, ![c].rs = "active",
                                  ![c].hc = "done"]
    /\ clientRef' = c
    /\ connected' = TRUE
    /\ acquiring' = TRUE
    /\ pollTimer' = PollingEffect(TRUE, tsvWriter)
    /\ intervals' = EffectIntervals(TRUE, tsvWriter, pollingRate)
    /\ status' = "Connected"
    /\ UNCHANGED <<tsvWriter, pollingRate, calVars, handlerVars, portVars, polls,
                   dataPoints, idbQ, store, tsv, now, ticks, anyFailed>>

\* handleDisconnect, from the click to its return
DuoDisconnect(outcome) ==
    /\ connected
    /\ clients' = [c \in ClientIds |->
                     IF c = clientRef THEN Disconnected(clients[c], outcome)
                     ELSE clients[c]]
    /\ clientRef' = 0
    /\ acquiring' = FALSE
    /\ pollTimer' = stopPolling
    /\ intervals' = clearInterval(intervals, pollTimer)
    /\ store' = <<>>
    /\ dataPoints' = <<>>
    /\ connected' = FALSE
    /\ status' = "Disconnected"
    /\ discDone' = TRUE
    /\ UNCHANGED <<tsvWriter, pollingRate, calVars, portVars, polls, idbQ, tsv, now,
                   ticks, conn, disc, nclients, save, nwriters, anyFailed>>

NextDuo ==
    \/ \E outcome \in DisconnectOutcomes : DuoConnectClick(outcome)
    \/ \E c \in ClientIds : DuoCleared(c)
    \/ \E c \in ClientIds, outcome \in DisconnectOutcomes : DuoCancel(c, outcome)
    \/ \E c \in ClientIds : DuoChoose(c)
    \/ \E c \in ClientIds, outcome \in DisconnectOutcomes : DuoOpenFail(c, outcome)
    \/ \E c \in ClientIds : DuoOpened(c)
    \/ \E outcome \in DisconnectOutcomes : DuoDisconnect(outcome)

SpecDuo == Init /\ [][NextDuo]_vars

(***************************************************************************)
(* The calibration set: loaded from the cookie when the page is loaded,    *)
(* replaced by handleLoadCalibration, saved to the cookie by the effect on *)
(* [aiCalibration], and used by pollOnce.  The page is loaded with any     *)
(* cookie and with the object store as the last page left it; the handlers *)
(* of the connection and pollOnce run from start to end, those that open a *)
(* file chooser step by step.                                              *)
(***************************************************************************)
CookieItems == {CalObject(1, 2, 3), JsonNull, JsonString}

ItemLists(items) == UNION {[1..n -> items] : n \in 0..MaxItems}

Cookies ==
    {NoCookie, [kind |-> "unparsable", items |-> <<>>], [kind |-> "object", items |-> <<>>]}
    \cup {[kind |-> "array", items |-> s] : s \in ItemLists(CookieItems)}

\* what a page that was closed while it was connected has left in the store
Leftovers == {<<>>, <<StoredDataPoint(0, GoodRegisters, GoodPhysical)>>}

InitCal ==
    /\ InitApp
    /\ polls = [s \in Slots |-> IdlePoll]
    /\ \E ck \in Cookies, left \in Leftovers :
          /\ cookie = ck
          /\ store = left
          /\ aiCalibration = loadAiCalibration(ck, AI_CHANNELS)

\* the effect on [aiCalibration] after the first render
SaveCalibrationEffect ==
    /\ cookie # saveAiCalibration(aiCalibration)
    /\ cookie' = saveAiCalibration(aiCalibration)
    /\ UNCHANGED <<connected, acquiring, tsvWriter, clientRef, pollTimer, pollingRate,
                   intervals, aiCalibration, handlerVars, portVars, clients, polls,
                   dataPoints, status, idbQ, store, tsv, now, ticks, anyFailed>>

\* handleConnect with the port chooser dismissed, from the click to its return
ConnectAborted ==
    /\ Quiet /\ ~connected /\ clientRef = 0
    /\ store' = <<>>
    /\ dataPoints' = <<>>
    /\ connected' = FALSE
    /\ acquiring' = FALSE
    /\ pollTimer' = PollingEffect(FALSE, tsvWriter)
    /\ intervals' = EffectIntervals(FALSE, tsvWriter, pollingRate)
    /\ status' = "Device selection cancelled"
    /\ UNCHANGED <<tsvWriter, clientRef, pollingRate, calVars, handlerVars, portVars,
                   clients, polls, idbQ, tsv, now, ticks, anyFailed>>

\* the registers the device holds: every channel reads r
CalRaws == {-32768, -1, 0, 2, 32767}

RegistersAt(r) == [i \in 1..AI_CHANNELS |-> r]

\* pollOnce: aiRaw.map((value, idx) => aiToPhysical(value, aiCalibration[idx] ?? ...))
PhysicalWith(aiRaw, calibration) ==
    [i \in 1..Len(aiRaw) |->
        IF i <= Len(calibration) /\ calibration[i].tag # "null"
        THEN CalPhysical(aiRaw[i], calibration[i])
        ELSE aiToPhysical(aiRaw[i], IdentityCal)]

\* a tick and its pollOnce to the end, the device answering with RegistersAt(r)
CalPoll(r) ==
    /\ Quiet /\ pollTimer.armed /\ clientRef # 0 /\ Ready(clientRef)
    /\ ticks < MaxCalPolls
    /\ LET w  == pollTimer.w
           st == AfterPoll([store |-> store, now |-> now,
                            rows |-> IF w = 0 THEN <<>> ELSE tsv[w].rows], w,
                           RegistersAt(r), PhysicalWith(RegistersAt(r), aiCalibration))
       IN  /\ store' = st.store
           /\ dataPoints' = DisplayPoints(st.store, w)
           /\ tsv' = IF w = 0 THEN tsv ELSE [tsv EXCEPT ![w].rows = st.rows]
           /\ now' = st.now
    /\ ticks' = ticks + 1
    /\ status' = "Polling"
    /\ UNCHANGED <<appVars, handlerVars, portVars, clients, polls, idbQ, anyFailed>>

(***************************************************************************)
(* handleLoadCalibration (with showOpenFilePicker available).  The file is *)
(* not JSON, or holds null, or holds an object: its member "type" and its  *)
(* members "00", "01", ... (items, in this order; the others are absent).  *)
(* A member is an object with a, b and c, an object with a only            *)
(* ("partial"), a string, or null (also: absent).                          *)
(***************************************************************************)
PartialObject(a) == [tag |-> "partial", a |-> a, b |-> 0, c |-> 0]

FileItems == {CalObject(1, 2, 3), PartialObject(1), JsonNull, JsonString}

FileTypes == {"Calibration", "calibration", "none"}

Files ==
    {[kind |-> "unparsable", type |-> "none", items |-> <<>>],
     [kind |-> "null", type |-> "none", items |-> <<>>]}
    \cup {[kind |-> "object", type |-> ty, items |-> s] :
             ty \in FileTypes, s \in ItemLists(FileItems)}

MsgSyntax == "Unexpected token in JSON"

MsgNullType == "Cannot read properties of null (reading 'type')"

MsgNotCalibration == "Invalid calibration file format: missing \"type\": \"Calibration\" field"

\* a check that looks at the spelling of the type only
FileErrorAnyCase(file) ==
    IF file.kind = "unparsable" THEN MsgSyntax
    ELSE IF file.kind = "null" THEN MsgNullType
    ELSE IF file.type \notin {"Calibration", "calibration"} THEN MsgNotCalibration
    ELSE "ok"

\* the status the file is refused with ("ok": it is accepted)
FileError(file) ==
    IF file.kind = "unparsable" THEN MsgSyntax
    ELSE IF file.kind = "null" THEN MsgNullType
    ELSE IF file.type # "Calibration" THEN MsgNotCalibration
    ELSE "ok"

\* the entry pushed for a member that is there: a ?? 0, b ?? 1, c ?? 0
LoadedEntry(item) ==
    CalObject(IF item.tag \in {"object", "partial"} THEN item.a ELSE 0,
              IF item.tag = "object" THEN item.b ELSE 1,
              IF item.tag = "object" THEN item.c ELSE 0)

loadedCalibration(file) ==
    [i \in 1..AI_CHANNELS |->
        IF i <= Len(file.items) /\ file.items[i].tag # "null"
        THEN LoadedEntry(file.items[i]) ELSE CalObject(0, 1, 0)]

LoadCalibrationClick ==
    /\ save.pc = "idle"
    /\ save' = [pc |-> "calpick", w |-> 0]
    /\ UNCHANGED <<appVars, portVars, clients, polls, dataPoints, status, idbQ, store, tsv,
                   now, ticks, conn, disc, nclients, nwriters, discDone, anyFailed>>

\* the user dismisses the file chooser: AbortError, caught, nothing is set
LoadCalibrationAbort ==
    /\ save.pc = "calpick"
    /\ save' = NoSave
    /\ UNCHANGED <<appVars, portVars, clients, polls, dataPoints, status, idbQ, store, tsv,
                   now, ticks, conn, disc, nclients, nwriters, discDone, anyFailed>>

\* the user picks a file: getFile and text are awaited
LoadCalibrationPicked(file) ==
    /\ save.pc = "calpick"
    /\ save' = [pc |-> "calread", w |-> 0, file |-> file]
    /\ UNCHANGED <<appVars, portVars, clients, polls, dataPoints, status, idbQ, store, tsv,
                   now, ticks, conn, disc, nclients, nwriters, discDone, anyFailed>>

\* the text of the file is there: JSON.parse, the check of the type, the
\* entries, setAiCalibration, setStatus; then the effects of the render
LoadCalibrationRead ==
    /\ save.pc = "calread"
    /\ save' = NoSave
    /\ IF FileError(save.file) # "ok"
       THEN /\ status' = FileError(save.file)
            /\ UNCHANGED <<pollTimer, intervals, calVars>>
       ELSE /\ aiCalibration' = loadedCalibration(save.file)
            /\ cookie' = saveAiCalibration(loadedCalibration(save.file))
            /\ pollTimer' = PollingEffect(acquiring, tsvWriter)
            /\ intervals' = EffectIntervals(acquiring, tsvWriter, pollingRate)
            /\ status' = "Calibration loaded successfully"
    /\ UNCHANGED <<connected, acquiring, tsvWriter, clientRef, pollingRate, portVars,
                   clients, polls, dataPoints, idbQ, store, tsv, now, ticks, conn, disc,
                   nclients, nwriters, discDone, anyFailed>>

NextCal ==
    \/ SaveCalibrationEffect
    \/ ConnectOk \/ ConnectAborted
    \/ StartSaveClick \/ SaveAbort
    \/ LoadCalibrationClick \/ LoadCalibrationAbort
    \/ \E file \in Files : LoadCalibrationPicked(file)
    \/ LoadCalibrationRead

SpecCal == InitCal /\ [][NextCal]_vars

\* the page is loaded with any cookie, the connection is made and polled
NextPhys ==
    \/ SaveCalibrationEffect
    \/ ConnectOk
    \/ \E r \in CalRaws : CalPoll(r)

SpecPhys == InitCal /\ [][NextPhys]_vars

(***************************************************************************)
(* applyLineCoding of the USB client, the last step of its connect(): with *)
(* a control interface (control), SET_LINE_CODING is sent with a payload   *)
(* of 7 bytes made from the serial settings; without, nothing is sent.     *)
(* The settings are those the selects of the page offer.                   *)
(***************************************************************************)
BAUD_OPTIONS == <<4800, 9600, 19200, 38400, 57600, 115200, 230400, 250000, 460800, 921600,
                  1500000, 2000000>>

DATA_BITS_OPTIONS == {7, 8}

STOP_BITS_OPTIONS == {1, 2}

PARITY_OPTIONS == {"none", "even", "odd"}

SerialSettings ==
    [baudRate : {BAUD_OPTIONS[i] : i \in DOMAIN BAUD_OPTIONS}, dataBits : DATA_BITS_OPTIONS,
     stopBits : STOP_BITS_OPTIONS, parity : PARITY_OPTIONS]

parityCode(parity) == IF parity = "none" THEN 0 ELSE IF parity = "odd" THEN 1 ELSE 2

stopBitsCode(stopBits) == IF stopBits = 1 THEN 0 ELSE 2

\* (x >> shift) & 0xff
ByteAt(x, shift) == (x \div (2 ^ shift)) % 256

\* a payload with the baud rate high byte first
LineCodingBigEndian(s) ==
    <<ByteAt(s.baudRate, 24), ByteAt(s.baudRate, 16), ByteAt(s.baudRate, 8),
      ByteAt(s.baudRate, 0), stopBitsCode(s.stopBits), parityCode(s.parity), s.dataBits>>

\* payload[0..6]
LineCoding(s) ==
    <<ByteAt(s.baudRate, 0), ByteAt(s.baudRate, 8), ByteAt(s.baudRate, 16),
      ByteAt(s.baudRate, 24), stopBitsCode(s.stopBits), parityCode(s.parity), s.dataBits>>

InitLine ==
    /\ InitButPolls
    /\ \E s \in SerialSettings, control \in BOOLEAN :
          polls = [t \in Slots |->
                     IF t = 1 THEN [IdlePoll EXCEPT !.pc = "input", !.op = "applyLineCoding",
                                                    !.settings = s, !.control = control]
                     ELSE IdlePoll]

\* applyLineCoding: false without a control interface, else the payload is
\* handed to controlTransferOut (request 0x20)
ApplyLineCoding ==
    /\ polls[1].pc = "input"
    /\ polls' = [polls EXCEPT ![1].pc = "result",
                              ![1].req = IF polls[1].control
                                         THEN LineCoding(polls[1].settings) ELSE <<>>]
    /\ FrameUnchanged

\* connect() has returned and the caller takes its result
LineReturn ==
    /\ polls[1].pc = "result"
    /\ polls' = [polls EXCEPT ![1].pc = "idle"]
    /\ FrameUnchanged

NextLine == ApplyLineCoding \/ LineReturn

SpecLine == InitLine /\ [][NextLine]_vars

(***************************************************************************)
(* getAiStatus on its own: the page is loaded with a calibration, a        *)
(* channel receives a raw value (at the thresholds, at the ends of the     *)
(* signed range, around 0) and its status is set from it, as setAiChannels *)
(* of pollOnce does.                                                       *)
(***************************************************************************)
StatusEdges == {0, 26214, 29491, 32767}

StatusRaws ==
    {r \in {e + d : e \in StatusEdges, d \in (-MaxSpan)..MaxSpan}
          \cup {-(e + d) : e \in StatusEdges, d \in (-MaxSpan)..MaxSpan} :
       r \in (-INT16_MAX - 1)..INT16_MAX}

StatusCookies == {NoCookie, [kind |-> "array", items |-> <<CalObject(1, 2, 3)>>]}

InitStatus ==
    /\ InitApp
    /\ store = <<>>
    /\ \E ck \in StatusCookies :
          /\ cookie = ck
          /\ aiCalibration = loadAiCalibration(ck, AI_CHANNELS)
    /\ \E raw \in StatusRaws :
          polls = [s \in Slots |->
                     IF s = 1 THEN [IdlePoll EXCEPT !.pc = "input", !.op = "getAiStatus",
                                                    !.aiRaw = <<raw>>]
                     ELSE IdlePoll]

\* status: getAiStatus(aiRaw[idx])
ChannelStatus ==
    /\ polls[1].pc = "input"
    /\ polls' = [polls EXCEPT ![1].pc = "result",
                              ![1].aiStatus = getAiStatus(polls[1].aiRaw[1])]
    /\ FrameUnchanged

NextStatus == ChannelStatus \/ SaveCalibrationEffect

SpecStatus == InitStatus /\ [][NextStatus]_vars

(***************************************************************************)
(* The pace of the ticks.  Time passes in steps of half the shortest        *)
(* polling period; an interval fires when its age has reached its period,  *)
(* and time does not pass while one is due.  Between the ticks the user     *)
(* edits calibration coefficients and starts and stops recording; every     *)
(* handler and every poll runs from start to end.                           *)
(***************************************************************************)
TimeStep == POLLING_OPTIONS[1] \div 2

Due(iv) == iv.age >= iv.ms

PaceAdvance ==
    /\ now < MaxTicks * POLLING_OPTIONS[1]
    /\ \A i \in DOMAIN intervals : ~Due(intervals[i])
    /\ now' = now + TimeStep
    /\ intervals' = [i \in DOMAIN intervals |->
                        [intervals[i] EXCEPT !.age = @ + TimeStep]]
    /\ UNCHANGED <<connected, acquiring, tsvWriter, clientRef, pollTimer, pollingRate,
                   calVars, handlerVars, portVars, clients, polls, dataPoints, status,
                   idbQ, store, tsv, ticks, anyFailed>>

\* an interval that is due fires: pollOnce to its end, the device answering well
PaceTick ==
    \E i \in DOMAIN intervals :
    /\ Quiet /\ Due(intervals[i]) /\ clientRef # 0 /\ Ready(clientRef)
    /\ intervals' = [intervals EXCEPT ![i].age = 0]
    /\ LET w  == intervals[i].w
           st == AfterPoll([store |-> store, now |-> now,
                            rows |-> IF w = 0 THEN <<>> ELSE tsv[w].rows], w,
                           GoodRegisters, PhysicalWith(GoodRegisters, aiCalibration))
       IN  /\ store' = st.store
           /\ dataPoints' = DisplayPoints(st.store, w)
           /\ tsv' = IF w = 0 THEN tsv ELSE [tsv EXCEPT ![w].rows = st.rows]
    /\ ticks' = ticks + 1
    /\ status' = "Polling"
    /\ UNCHANGED <<connected, acquiring, tsvWriter, clientRef, pollTimer, pollingRate,
                   calVars, handlerVars, portVars, clients, polls, idbQ, now, anyFailed>>

Coefficients == {0, 1}

\* updateAiCalibration: next = [...prev], next[idx] = {...next[idx], [key]: value}
updatedCalibration(idx, key, value) ==
    [aiCalibration EXCEPT ![idx] =
        CASE key = "a" -> [@ EXCEPT !.a = value]
          [] key = "b" -> [@ EXCEPT !.b = value]
          [] OTHER     -> [@ EXCEPT !.c = value]]

\* the user edits a coefficient: setAiCalibration; the render gives a new
\* pollOnce and a new startPolling, so the effects on [aiCalibration] and on
\* [acquiring, startPolling, stopPolling] both run
UpdateAiCalibration(idx, key, value) ==
    /\ Quiet
    /\ aiCalibration' = updatedCalibration(idx, key, value)
    /\ cookie' = saveAiCalibration(updatedCalibration(idx, key, value))
    /\ pollTimer' = PollingEffect(acquiring, tsvWriter)
    /\ intervals' = EffectIntervals(acquiring, tsvWriter, pollingRate)
    /\ UNCHANGED <<connected, acquiring, tsvWriter, clientRef, pollingRate, handlerVars,
                   portVars, clients, polls, dataPoints, status, idbQ, store, tsv, now,
                   ticks, anyFailed>>

NextPace ==
    \/ ConnectOk
    \/ PaceAdvance
    \/ PaceTick
    \/ \E key \in {"a", "b", "c"}, value \in Coefficients : UpdateAiCalibration(1, key, value)
    \/ StartSaveOk \/ StopSaveOk

SpecPace == Init /\ [][NextPace]_vars

(***************************************************************************)
(* Properties.                                                             *)
(***************************************************************************)
ErrorMessages ==
    {MsgNotConnected, MsgTimeout, MsgClosed, MsgReleased, MsgTooShort, MsgCrc, MsgRange}

\* the exchange of slot s ends in this step
Resolves(s) == InExchange(polls[s]) /\ ~InExchange(polls'[s])

BadCrc(resp) == Len(resp) >= 3 /\ receivedCrc(resp) # calculatedCrc(resp)

\* C1 (as claimed): at most one exchange is in flight on one client in every
\* reachable state; a tick that comes while an exchange is unresolved starts none.
C1_OneExchangeInFlight ==
    \A c \in ClientIds :
        Cardinality({s \in Slots : InExchange(polls[s]) /\ polls[s].c = c}) <= 1

\* C2: a response whose last two bytes (low byte first) differ from the CRC16
\* of the bytes before them is rejected by transfer with the CRC-mismatch
\* error, and readInputRegisters returns no register value from it (so
\* pollOnce, which builds its DataPoint from the returned values, has none).
C2_BadCrcRejected ==
    \A s \in Slots :
        (polls[s].pc = "result" /\ BadCrc(polls[s].resp))
            => (polls[s].err = MsgCrc /\ polls[s].aiRaw = <<>>)

\* a call has returned on a response of full length whose CRC does not match
C2_Witness ==
    \E s \in Slots :
        /\ polls[s].pc = "result"
        /\ BadCrc(polls[s].resp)
        /\ Len(polls[s].resp) = ExpectedLength(AI_CHANNELS)
        /\ polls[s].err = MsgCrc

\* C3: in the step in which the exchange of a poll fails, the error message
\* becomes the status, the store, the requests queued on it, the displayed
\* points and the log files stay as they were, and the timer stays as it was
\* (unless the step is the user's disconnect, which stops it).
C3_FailedPollAbsorbed ==
    [][\A s \in Slots :
          (polls[s].caller = "poll" /\ Resolves(s) /\ polls'[s].pc = "idle")
              => /\ status' \in ErrorMessages
                 /\ store' = store
                 /\ idbQ' = idbQ
                 /\ dataPoints' = dataPoints
                 /\ tsv' = tsv
                 /\ (disc' = disc => pollTimer' = pollTimer)]_vars

\* while recording, after one poll that succeeded, a poll has failed: the
\* status shows its error, the timer is armed, store and log hold the one row
C3_Witness ==
    /\ tsvWriter # 0
    /\ status \in {MsgTimeout, MsgCrc}
    /\ pollTimer.armed
    /\ ticks = 2
    /\ polls = [s \in Slots |-> IdlePoll]
    /\ Len(store) = 1
    /\ Len(tsv[tsvWriter].rows) = 1

\* C4 (as claimed): after a failed exchange, a poll whose own response is
\* well-formed and in time, on an open port, with no other exchange beside
\* it, succeeds and hands on exactly the register values of that response.
C4_GoodResponseAfterFailure ==
    [][\A s \in Slots :
          (/\ anyFailed
           /\ polls[s].caller = "poll" /\ polls[s].beh = "good"
           /\ ~polls[s].overlap /\ ~polls[s].late
           /\ clients[polls[s].c].rs = "active" /\ disc' = disc
           /\ Resolves(s))
              => /\ polls'[s].pc = "add"
                 /\ polls'[s].aiRaw = DecodeRegisters(Resp[polls[s].n])]_vars

\* C5 (as claimed): every exchange that has been started resolves.
C5_ExchangeResolves ==
    \A s \in Slots : InExchange(polls[s]) ~> ~InExchange(polls[s])

\* C9: once handleDisconnect has completed, and until the next connect, the
\* store is empty and no append is waiting to be run on it.
C9_EmptyAfterDisconnect ==
    discDone => /\ store = <<>>
                /\ \A i \in 1..Len(idbQ) : idbQ[i].op # "add"

\* the disconnect has completed while a poll started before it is still running
C9_Witness ==
    /\ discDone
    /\ \E s \in Slots : polls[s].pc \in {"count", "getall"} /\ polls[s].c = nclients

\* from the click on Disconnect to the end of the next connect
Stopped == disc # "idle" \/ ~connected

\* C10 (as claimed): once stopPolling has run on disconnect the timer is
\* cancelled and no exchange is in flight.
C10_IdleAfterStop == Stopped => (~pollTimer.armed /\ ExchangeSlots = {})

\* C10 (amended): once stopPolling has run on disconnect, and until the next
\* start, the timer is cancelled and no exchange is started.
C10_NoStartAfterStop ==
    [][Stopped' => /\ ~pollTimer'.armed
                   /\ \A s \in Slots : InExchange(polls'[s]) => InExchange(polls[s])]_vars

\* stopPolling has run and the exchange started by the last tick is in flight
C10_Witness ==
    /\ disc = "cancel"
    /\ ~pollTimer.armed
    /\ ExchangeSlots # {}

\* the k points appended last, in the order they were appended
Latest(k) ==
    [i \in 1..k |-> DataPointOf(DecodeRegisters(Resp[1]), now - k + i)]

Min(a, b) == IF a <= b THEN a ELSE b

Contains(points, p) == \E k \in 1..Len(points) : points[k] = p

\* C6 (as claimed): while recording is not active the store holds the most
\* recent min(n, 512) points of the n polls so far, in their order, and after
\* recording has been stopped it holds no more than 512.
C6_StoreKeepsLatest512 ==
    (connected /\ tsvWriter = 0)
        => /\ Len(store) <= 512
           /\ nwriters = 0 => store = Latest(Min(ticks, 512))

\* C7 (as claimed): the display is never handed more than 512 points.
C7_DisplayAtMost512 == Len(dataPoints) <= 512

\* C8 (as claimed): while recording with more than 512 points stored, the
\* points handed to the display contain the oldest and the newest of them.
C8_FirstAndLastKept ==
    (tsvWriter # 0 /\ Len(store) > 512)
        => /\ Contains(dataPoints, store[1])
           /\ Contains(dataPoints, store[Len(store)])

\* C8 (amended): while recording with more than 512 points stored, the
\* points handed to the display begin with the oldest of them; the newest is
\* among them exactly when nothing is decimated (no more than
\* MAX_POINTS_IN_MEMORY are stored) or the stride divides the length less one.
C8_FirstKeptLastByStride ==
    (tsvWriter # 0 /\ Len(store) > 512)
        => /\ dataPoints[1] = store[1]
           /\ Contains(dataPoints, store[Len(store)])
                <=> \/ Len(store) <= MAX_POINTS_IN_MEMORY
                    \/ (Len(store) - 1) % Stride(Len(store)) = 0

\* recording, two points over the cap are stored: every second point is
\* shown, and the newest is not
C8_Witness ==
    /\ tsvWriter # 0
    /\ Len(store) = MAX_POINTS_IN_MEMORY + 2
    /\ Len(dataPoints) = MAX_POINTS_IN_MEMORY \div 2 + 1
    /\ dataPoints[1] = store[1]
    /\ ~Contains(dataPoints, store[Len(store)])

\* C11: while acquiring exactly one interval is live, and it is the one
\* pollTimer.current names, armed with the selected period; when not
\* acquiring none is live.  (A change of the polling rate replaces the
\* interval within the step that changes the rate.)
C11_OneTimerWhileAcquiring ==
    /\ Len(intervals) = (IF acquiring THEN 1 ELSE 0)
    /\ pollTimer.armed = acquiring
    /\ acquiring => intervals[1].ms = pollingRate

\* acquiring and recording, after the polling rate was changed
C11_Witness ==
    /\ acquiring /\ tsvWriter # 0
    /\ pollingRate # POLLING_OPTIONS[1]
    /\ intervals = <<[w |-> tsvWriter, ms |-> pollingRate, age |-> 0]>>
    /\ ticks > 0

\* C12 (as claimed): when the response a call has assembled is the answer
\* with 14 of the 16 registers (33 bytes, byte count 28, valid CRC), the call
\* fails with the short-response error and returns no register values.
C12_ShortResponseRejected ==
    \A s \in Slots :
        (polls[s].pc = "result" /\ polls[s].resp = ShortResp[polls[s].n])
            => (polls[s].err = MsgTooShort /\ polls[s].aiRaw = <<>>)

\* C13 (as claimed): every point in the store has AI_CHANNELS raw values and
\* AI_CHANNELS physical values, whatever byte count field the CRC-valid
\* responses carried.
C13_PointsHaveAllChannels ==
    \A k \in 1..Len(store) :
        /\ Len(store[k].aiRaw) = AI_CHANNELS
        /\ Len(store[k].aiPhysical) = AI_CHANNELS

\* the timestamps of points never decrease along the sequence
InTimeOrder(points) ==
    \A k \in 1..(Len(points) - 1) : points[k].timestamp <= points[k + 1].timestamp

ConnectErrors ==
    {"Device selection cancelled", "Failed to open serial port",
     "Port streams are not available"}

\* C15 (as claimed): in the step in which handleConnect ends without a
\* connection, the error becomes the status, connected and acquiring are
\* false, no client is retained and no port is open.
C15_FailedConnectLeavesNothing ==
    [][(conn # "idle" /\ conn' = "idle" /\ ~connected')
          => /\ status' \in ConnectErrors
             /\ ~acquiring'
             /\ clientRef' = 0
             /\ \A c \in ClientIds : ~clients'[c].opened]_vars

(***************************************************************************)
(* Calls on a client without an open channel.                              *)
(***************************************************************************)
\* the client was never connected, or its disconnect() has returned
NoChannel == nclients = 0 \/ clients[1].rs = "closed"

\* the step is a call that takes slot s
CallStep(s) == polls[s].pc = "idle" /\ polls'[s].pc # "idle"

\* the call in slot s has thrown without any byte written to or read from the port
ThrownWithoutIO(s) ==
    /\ polls'[s].pc = "result"
    /\ polls'[s].req = <<>>
    /\ UNCHANGED <<portVars, ticks>>

\* C16: every operation called on a client that has no open channel (never
\* connected, or after disconnect has returned) fails with 'Device not
\* connected' without writing or reading any byte.
C16_NotConnectedWithoutIO ==
    [][\A s \in Slots :
          (CallStep(s) /\ NoChannel)
             => ThrownWithoutIO(s) /\ polls'[s].err = MsgNotConnected]_vars

\* C16, amended: every operation called on a client that has no open channel
\* fails without writing or reading any byte; it fails with 'Device not
\* connected', except writeMultipleHoldingRegisters with no values or more
\* than 123, which fails with the error of its own check.
C16_NotConnectedOrRejected ==
    [][\A s \in Slots :
          (CallStep(s) /\ NoChannel)
             => /\ ThrownWithoutIO(s)
                /\ polls'[s].err =
                      IF polls'[s].op = "writeMultipleHoldingRegisters"
                         /\ Len(polls'[s].values) \notin 1..MAX_WRITE_REGISTERS
                      THEN (IF polls'[s].values = <<>> THEN MsgNoValues ELSE MsgTooMany)
                      ELSE MsgNotConnected]_vars

\* after an exchange and a disconnect, a write of MAX_WRITE_REGISTERS values
\* has failed with 'Device not connected'
C16_Witness ==
    /\ clients[1].rs = "closed" /\ ticks > 0
    /\ polls[1].pc = "result" /\ polls[1].op = "writeMultipleHoldingRegisters"
    /\ Len(polls[1].values) = MAX_WRITE_REGISTERS
    /\ polls[1].err = MsgNotConnected /\ polls[1].req = <<>>

(***************************************************************************)
(* writeMultipleHoldingRegisters.                                          *)
(***************************************************************************)
\* C17: writeMultipleHoldingRegisters with an empty list or more than 123
\* values fails with the error of its check before any I/O; with 1 to 123
\* values (on a connected client) it writes one frame, the Write Multiple
\* Registers request for these values, and reads one answer of 8 bytes:
\* the frame is written when the call begins and never again.
C17_WriteMultipleChecked ==
    [][\A s \in Slots :
          /\ (CallStep(s) /\ polls'[s].op = "writeMultipleHoldingRegisters")
                => IF Len(polls'[s].values) \notin 1..MAX_WRITE_REGISTERS
                   THEN /\ ThrownWithoutIO(s)
                        /\ polls'[s].err \in {MsgNoValues, MsgTooMany}
                   ELSE Ready(1)
                          => /\ polls'[s].pc = "write"
                             /\ polls'[s].req =
                                   WriteMultipleRequest(AO_START_REGISTER, polls'[s].values)
                             /\ polls'[s].expected = 8
                             /\ ticks' = ticks + 1
          /\ (polls[s].pc # "idle" /\ polls'[s].pc # "idle")
                => polls'[s].req = polls[s].req]_vars

\* a write of MAX_WRITE_REGISTERS values has been acknowledged
C17_Witness ==
    \E s \in Slots :
       /\ polls[s].pc = "result" /\ polls[s].op = "writeMultipleHoldingRegisters"
       /\ Len(polls[s].values) = MAX_WRITE_REGISTERS
       /\ polls[s].err = "" /\ polls[s].resp = AckFrame(polls[s].req)
       /\ ticks > 1

(***************************************************************************)
(* Samples forwarded to the log.                                           *)
(***************************************************************************)
\* recording is active: a writer is set and its file is open
RecordingActive == tsvWriter # 0 /\ tsv[tsvWriter].state = "open"

\* the poll of slot s, which has succeeded, passes "if (tsvWriter)"
ForwardStep(s) == polls[s].pc = "getall" /\ polls'[s].pc # "getall"

Rows(files) == [w \in WriterIds |-> files[w].rows]

\* C18: a successful poll forwards its sample to the log writer exactly once
\* if recording is active and not at all otherwise, and nothing else adds a
\* row (a failed poll forwards nothing): the rows of a log are the samples of
\* the successful polls that completed while it was recorded.
C18_RowPerSuccessfulPoll ==
    [][/\ \A s \in Slots :
             ForwardStep(s)
               => Rows(tsv') =
                    IF RecordingActive
                    THEN [Rows(tsv) EXCEPT ![tsvWriter] =
                            Append(@, [timestamp |-> now, aiRaw |-> polls[s].aiRaw])]
                    ELSE Rows(tsv)
       /\ (\A s \in Slots : ~ForwardStep(s)) => Rows(tsv') = Rows(tsv)]_vars

(***************************************************************************)
(* Frames and their CRC.                                                   *)
(***************************************************************************)
\* the frame of slot 1 has been validated as it was built
ValidatedAsBuilt == polls[1].pc = "result" /\ polls[1].resp = polls[1].req

\* C19: for every slave address, function code and payload B, the frame
\* built by buildFrame is the address, the function code and B followed by
\* two CRC bytes, and it passes the CRC validation of transfer.
C19_BuiltFramePasses ==
    /\ polls[1].pc \in {"built", "result"}
          => /\ Len(polls[1].req) = Len(polls[1].values) + 4
             /\ SubSeq(polls[1].req, 1, Len(polls[1].req) - 2)
                   = <<polls[1].slaveId, polls[1].fc>> \o polls[1].values
    /\ ValidatedAsBuilt => polls[1].err = ""

\* a Write Multiple Registers frame for slave 247 with a payload of
\* MaxPayload bytes has passed the validation
C19_Witness ==
    /\ ValidatedAsBuilt /\ polls[1].err = ""
    /\ polls[1].slaveId = 247 /\ polls[1].fc = 16
    /\ Len(polls[1].values) = MaxPayload /\ polls[1].values[1] = 255

\* the validated frame differs from the built one in one bit
FlippedOnce ==
    /\ polls[1].pc = "result"
    /\ \E i \in 1..Len(polls[1].req), b \in 0..7 :
          polls[1].resp = FlipBit(polls[1].req, i, b)

\* C20: a frame built by buildFrame in which any single bit is flipped fails
\* the CRC validation with 'CRC mismatch'.
C20_BitFlipDetected == FlippedOnce => polls[1].err = MsgCrc

\* the top bit of the last CRC byte was flipped, and the frame was refused
C20_Witness ==
    /\ polls[1].pc = "result" /\ polls[1].err = MsgCrc
    /\ Len(polls[1].values) = MaxPayload
    /\ polls[1].resp = FlipBit(polls[1].req, Len(polls[1].req), 7)

\* a tick's pollOnce has run to its end and appended a data point
PollAppended == ticks' = ticks + 1 /\ Len(store') > 0

\* C21: the physical value pollOnce stores for a channel is
\* a * raw * raw + b * raw + c for the raw value read and the channel's
\* calibration entry (a, b, c); no raw value and no entry is refused, and
\* the identity entry (0, 1, 0) gives the raw value.
C21_Polynomial ==
    [][PollAppended =>
          LET p == store'[Len(store')]
          IN  \A i \in 1..AI_CHANNELS :
                 aiCalibration[i].tag = "object" =>
                    /\ p.aiPhysical[i]
                          = aiCalibration[i].a * p.aiRaw[i] * p.aiRaw[i]
                               + aiCalibration[i].b * p.aiRaw[i] + aiCalibration[i].c
                    /\ aiCalibration[i] = CalObject(0, 1, 0)
                          => p.aiPhysical[i] = p.aiRaw[i]]_vars

\* raw 2 was read under the entry (1, 2, 3) and 11 was stored; the next
\* channel, under the identity entry, stored 2
C21_Witness ==
    /\ Len(store) > 0
    /\ aiCalibration[1] = CalObject(1, 2, 3)
    /\ aiCalibration[2] = CalObject(0, 1, 0)
    /\ store[Len(store)].aiRaw[1] = 2
    /\ store[Len(store)].aiPhysical[1] = 11
    /\ store[Len(store)].aiPhysical[2] = 2

\* the page has been loaded and no handler has reported anything yet: the
\* calibration set is the one loadAiCalibration returned
PageLoaded == status = "Disconnected"

\* C22: the calibration set loaded with the page has exactly AI_CHANNELS
\* entries, and the entry of a channel is the one the cookie holds for it
\* when that one is well formed (an object with a, b and c), the identity
\* otherwise, whatever the cookie holds for the other channels.
C22_LoadedOrIdentity ==
    PageLoaded =>
       /\ DOMAIN aiCalibration = 1..AI_CHANNELS
       /\ \A idx \in 1..AI_CHANNELS :
             aiCalibration[idx] =
                IF /\ cookie.kind = "array" /\ idx <= Len(cookie.items)
                   /\ cookie.items[idx].tag = "object"
                THEN cookie.items[idx] ELSE CalObject(0, 1, 0)

\* C23: handleLoadCalibration given a file whose "type" is not "Calibration"
\* (or that holds no object at all) leaves the calibration set and its cookie
\* as they were and does not report a load; given any other file it sets
\* exactly AI_CHANNELS entries, the identity for every channel the file has
\* no member for.
C23_LoadChecksType ==
    [][save.pc = "calread" /\ save'.pc = "idle" =>
          LET file == save.file
          IN  IF file.kind # "object" \/ file.type # "Calibration"
              THEN /\ aiCalibration' = aiCalibration
                   /\ cookie' = cookie
                   /\ status' # "Calibration loaded successfully"
              ELSE /\ DOMAIN aiCalibration' = 1..AI_CHANNELS
                   /\ \A i \in 1..AI_CHANNELS :
                         i > Len(file.items) \/ file.items[i].tag = "null"
                            => aiCalibration'[i] = CalObject(0, 1, 0)]_vars

\* a file with a member for the first channel only was loaded, and a file
\* of another type was refused after it
C23_Witness ==
    /\ status = MsgNotCalibration
    /\ aiCalibration[1] = CalObject(1, 1, 0)
    /\ \A i \in 2..AI_CHANNELS : aiCalibration[i] = CalObject(0, 1, 0)

\* C24: a handler whose chooser the user dismisses (the port chooser of
\* handleConnect, the file chooser of handleStartSave or of
\* handleLoadCalibration) leaves the connection state, the recording state,
\* the calibration set and the contents of the object store as they were
\* before the click, and reports nothing.
C24_AbortLeavesState ==
    [][ConnectAborted \/ SaveAbort \/ LoadCalibrationAbort =>
          /\ UNCHANGED <<connected, acquiring, clientRef, tsvWriter, aiCalibration, store>>
          /\ status' = status]_vars

\* the step runs the deletion of a keepLatestPoints
KeepDeletes == idbQ # <<>> /\ Head(idbQ).op = "delete" /\ Len(store') < Len(store)

\* C25: a deletion of keepLatestPoints(MAX_POINTS_IN_MEMORY) removes none of
\* the MAX_POINTS_IN_MEMORY newest points of the store, whatever requests of
\* other polls ran between its count and its deletion: the newest points,
\* up to that number, are all still stored after it.
C25_KeepsNewest ==
    [][KeepDeletes =>
          LET kept == IF Len(store) <= MAX_POINTS_IN_MEMORY THEN Len(store)
                      ELSE MAX_POINTS_IN_MEMORY
          IN  /\ Len(store') >= kept
              /\ store' = SubSeq(store, Len(store) - Len(store') + 1, Len(store))]_vars

\* the poll of slot s, whose closure holds a log writer, calls its writeRow
WriteRowCalled(s) == ForwardStep(s) /\ polls[s].w # 0

\* C26: a log writer that has been closed receives no further row: no poll
\* calls writeRow on a writer handleStopSave has closed, and the rows of a
\* closed log never change.
C26_NoRowAfterClose ==
    [][/\ \A s \in Slots : WriteRowCalled(s) => tsv[polls[s].w].state = "open"
       /\ \A w \in WriterIds : tsv[w].state = "closed" => tsv'[w].rows = tsv[w].rows]_vars

\* no poll is between its addDataPoint and the end of its writeRow, and no
\* handler of the recording is under way
SamplesSettled ==
    /\ save.pc = "idle" /\ idbQ = <<>>
    /\ \A s \in Slots : polls[s].pc \notin {"add", "count", "delete", "getall", "row"}

RawOf(points) == [i \in 1..Len(points) |-> points[i].aiRaw]

\* C27: while a recording session is active, the points appended to the
\* store since the clear of handleStartSave and the rows of the session's
\* log are the same samples in the same order, also for polls that were in
\* flight when the recording was started.
C27_StoreMatchesLog ==
    RecordingActive /\ SamplesSettled => RawOf(store) = RawOf(tsv[tsvWriter].rows)

\* the points of s at the indices 0, stride, 2 * stride, ... (counted from 0)
EveryNth(s, stride) ==
    [k \in 1..((Len(s) - 1) \div stride + 1) |-> s[(k - 1) * stride + 1]]

HasConnected(c) == clients[c].hc = "done"

\* C29: every client whose connect() has opened a port is the current client
\* (clientRef.current) or its disconnect() has been called and has returned
\* (its port is null), whatever connect and disconnect requests were made,
\* also a connect request made while an earlier one was waiting.
C29_OpenedIsCurrentOrDisconnected ==
    \A c \in ClientIds :
       HasConnected(c) => (c = clientRef \/ ~clients[c].port)

\* the step in which the disconnect() of the connected client c returns
DisconnectReturns(c) == HasConnected(c) /\ clients[c].port /\ ~clients'[c].port

\* C30: when the disconnect() of a connected client returns, its port, reader
\* and writer are null and the port it had opened is closed, also when
\* reader.cancel() or writer.close() has rejected.
C30_DisconnectCloses ==
    [][\A c \in ClientIds :
          DisconnectReturns(c) =>
             /\ ~clients'[c].port /\ ~clients'[c].reader /\ ~clients'[c].writer
             /\ ~clients'[c].opened]_vars

\* the time until the interval armed last fires
TimeToTick(iv) == iv[Len(iv)].ms - iv[Len(iv)].age

\* the user edits a calibration coefficient or starts or stops recording,
\* with the acquisition on and the polling period as it was
PeriodKeepingAction ==
    /\ acquiring /\ acquiring' /\ pollingRate' = pollingRate
    /\ aiCalibration' # aiCalibration \/ cookie' # cookie \/ tsvWriter' # tsvWriter

\* C31: while the acquisition is on, an action of the user that leaves the
\* polling period as it is (editing a calibration coefficient, starting or
\* stopping the recording) does not postpone the next tick: the time until
\* the next tick is the same after it as before.
C31_TickNotPostponed ==
    [][PeriodKeepingAction => TimeToTick(intervals') = TimeToTick(intervals)]_vars

\* a call of the operation op has returned a value
CallReturned(op) == polls[1].pc = "result" /\ polls[1].op = op /\ polls[1].err = ""

\* C32: what readInputRegisters returns is, for each 2-byte group of the
\* payload in register order, hi * 256 + lo, minus 65536 when that is at
\* least 32768; every value lies in -32768..32767, and there are
\* byteCount / 2 of them, byteCount being the third byte of the response.
C32_DecodesSignedRegisters ==
    CallReturned("readInputRegisters") =>
        LET view   == polls[1].resp
            values == polls[1].aiRaw
        IN  /\ 2 * Len(values) = view[3]
            /\ \A i \in DOMAIN values :
                  LET u == view[2 * i + 2] * 256 + view[2 * i + 3]
                  IN  /\ values[i] = IF u >= 32768 THEN u - 65536 ELSE u
                      /\ values[i] \in -32768..32767

\* a call of the operation op has written its frame
CallSent(op) == polls[1].pc \in {"sent", "result"} /\ polls[1].op = op

\* [slave, 4, startHi, startLo, countHi, countLo, crcLo, crcHi]
ReadFrameOf(start, registers) ==
    LET head == <<SlaveId, 4, start \div 256, start % 256, registers \div 256,
                  registers % 256>>
    IN  head \o <<crc16(head) % 256, crc16(head) \div 256>>

\* the device has put the length of its payload into the byte count field
HonestAnswer == polls[1].pc = "result" /\ polls[1].skew = 0

\* C33: readInputRegisters(start, count) writes one frame, [slave, 4,
\* startHi, startLo, countHi, countLo, crcLo, crcHi], and waits for
\* 5 + 2 * count bytes; readInputRegistersAsFloat32Abcd(start, count) writes
\* that frame with 2 * count registers, waits for 5 + 4 * count bytes and
\* returns one value for every 4 bytes of the payload.
C33_ReadFrames ==
    /\ CallSent("readInputRegisters") =>
          /\ ticks = 1
          /\ polls[1].req = ReadFrameOf(polls[1].start, polls[1].count)
          /\ polls[1].expected = 5 + 2 * polls[1].count
          /\ HonestAnswer => polls[1].err = "" /\ Len(polls[1].resp) = polls[1].expected
    /\ CallSent("readInputRegistersAsFloat32Abcd") =>
          /\ ticks = 1
          /\ polls[1].req = ReadFrameOf(polls[1].start, 2 * polls[1].count)
          /\ polls[1].expected = 5 + 4 * polls[1].count
          /\ HonestAnswer =>
                /\ polls[1].err = ""
                /\ Len(polls[1].resp) = polls[1].expected
                /\ 4 * Len(polls[1].aiRaw) = Len(polls[1].resp) - 5
                /\ \A i \in DOMAIN polls[1].aiRaw :
                      polls[1].aiRaw[i] = SubSeq(polls[1].resp, 4 * i, 4 * i + 3)

C33_Witness ==
    /\ CallSent("readInputRegistersAsFloat32Abcd") /\ HonestAnswer
    /\ polls[1].start = 5000 /\ polls[1].count = AI_CHANNELS
    /\ Len(polls[1].aiRaw) = AI_CHANNELS

\* the payload of the frame: what lies between the function code and the CRC
PayloadOf(frame) == SubSeq(frame, 3, Len(frame) - 2)

\* C34: for 1 to 123 values, writeMultipleHoldingRegisters hands to
\* buildFrame(16, ...) the payload startHi, startLo, countHi, countLo,
\* byteCount = 2 * n and then every value mod 65536 (a negative value wraps)
\* as high byte and low byte, and waits for a response of 8 bytes.
C34_WriteMultiplePayload ==
    CallSent("writeMultipleHoldingRegisters") =>
        LET values  == polls[1].values
            n       == Len(values)
            payload == PayloadOf(polls[1].req)
        IN  /\ n \in 1..123
            /\ SubSeq(polls[1].req, 1, 2) = <<SlaveId, 16>>
            /\ Len(payload) = 5 + 2 * n
            /\ SubSeq(payload, 1, 5) = <<polls[1].start \div 256, polls[1].start % 256,
                                         n \div 256, n % 256, 2 * n>>
            /\ \A k \in 1..n :
                  /\ payload[4 + 2 * k] = (values[k] % 65536) \div 256
                  /\ payload[5 + 2 * k] = (values[k] % 65536) % 256
            /\ polls[1].expected = 8
            /\ polls[1].pc = "result" => polls[1].err = ""

\* 123 values with negative ones and ones wider than 16 bits among them
C34_Witness ==
    /\ CallSent("writeMultipleHoldingRegisters") /\ polls[1].pc = "result"
    /\ Len(polls[1].values) = 123
    /\ \E k \in 1..123 : polls[1].values[k] = -1 /\ PayloadOf(polls[1].req)[4 + 2 * k] = 255
    /\ \E k \in 1..123 : polls[1].values[k] = 70000

\* writeRow of the poll of slot s appends a row to its log file
RowWritten(s) ==
    WriteRowCalled(s) /\ Len(tsv'[polls[s].w].rows) = Len(tsv[polls[s].w].rows) + 1

WrittenRow(s) == tsv'[polls[s].w].rows[Len(tsv'[polls[s].w].rows)]

\* C35: when a poll writes its row to the log, the timestamp of the row is
\* the timestamp of the DataPoint that the same poll has appended to the
\* DataStore.
C35_RowTimestampIsPointTimestamp ==
    [][\A s \in Slots : RowWritten(s) => WrittenRow(s).timestamp = polls[s].ts]_vars

\* the status of a channel has been set from its raw value
StatusSet == polls[1].pc = "result" /\ polls[1].op = "getAiStatus"

Severity(st) == CASE st = "danger" -> 2 [] st = "warning" -> 1 [] OTHER -> 0

\* C36: the status of a raw value r in -32768..32767 is danger when
\* |r| / 32767 >= 0.9, warning when 0.8 <= |r| / 32767 < 0.9 and normal
\* otherwise, whatever the calibration; it is the status of -r, and no value
\* of smaller magnitude has a more severe status.
C36_StatusFromMagnitude ==
    StatusSet =>
        LET raw == polls[1].aiRaw[1]
            m   == IF raw < 0 THEN -raw ELSE raw
        IN  /\ polls[1].aiStatus = IF 10 * m >= 9 * 32767 THEN "danger"
                                   ELSE IF 10 * m >= 8 * 32767 THEN "warning"
                                   ELSE "normal"
            /\ polls[1].aiStatus = getAiStatus(-raw)
            /\ \A r \in StatusRaws :
                  (IF r < 0 THEN -r ELSE r) <= m
                      => Severity(getAiStatus(r)) <= Severity(polls[1].aiStatus)

\* -32768 with a calibration other than the identity: danger
C36_Witness ==
    /\ StatusSet /\ polls[1].aiRaw = <<-32768>> /\ polls[1].aiStatus = "danger"
    /\ aiCalibration[1] = CalObject(1, 2, 3)

\* the log writers that polls can reach: the one of the application state
\* and the ones in the closures of the armed intervals and of the polls
ReachableWriters ==
    {tsvWriter} \cup {intervals[i].w : i \in DOMAIN intervals}
                \cup {polls[s].w : s \in Slots}

\* C37: the header of a log file is written once, and before any row: a
\* file that holds a row holds its header, and so does every file whose
\* writer a poll can reach.
C37_HeaderOnceBeforeRows ==
    \A w \in WriterIds :
        /\ tsv[w].header <= 1
        /\ tsv[w].rows # <<>> => tsv[w].header = 1
        /\ w \in ReachableWriters => tsv[w].header = 1

\* a recording session with a row in its log
C37_Witness ==
    \E w \in WriterIds : tsvWriter = w /\ tsv[w].header = 1 /\ Len(tsv[w].rows) >= 1

\* applyLineCoding has handed a payload to controlTransferOut
LineCodingSent ==
    polls[1].pc = "result" /\ polls[1].op = "applyLineCoding" /\ polls[1].control

\* C38: the payload of the line coding is 7 bytes: the baud rate as a 32-bit
\* integer, low byte first, then 0 for 1 stop bit and 2 for 2, then 0 for no
\* parity, 1 for odd and 2 for even, then the data bits (7 or 8); for
\* 38400 baud, 8 data bits, no parity and 1 stop bit it is
\* 00 96 00 00 00 00 08.
C38_LineCodingPayload ==
    LineCodingSent =>
        LET s       == polls[1].settings
            payload == polls[1].req
        IN  /\ Len(payload) = 7
            /\ \A i \in 1..7 : payload[i] \in 0..255
            /\ payload[1] = s.baudRate % 256
            /\ payload[2] = (s.baudRate \div 256) % 256
            /\ payload[3] = (s.baudRate \div 65536) % 256
            /\ payload[4] = (s.baudRate \div 16777216) % 256
            /\ payload[5] = (CASE s.stopBits = 1 -> 0 [] s.stopBits = 2 -> 2)
            /\ payload[6] = (CASE s.parity = "none" -> 0 [] s.parity = "odd" -> 1
                               [] s.parity = "even" -> 2)
            /\ payload[7] = s.dataBits /\ payload[7] \in {7, 8}
            /\ s = [baudRate |-> 38400, dataBits |-> 8, stopBits |-> 1, parity |-> "none"]
                  => payload = <<0, 150, 0, 0, 0, 0, 8>>

\* the payload of the default settings
C38_Witness ==
    /\ LineCodingSent /\ polls[1].settings = DEFAULT_SERIAL_SETTINGS
    /\ polls[1].req = <<0, 150, 0, 0, 0, 0, 8>>

=============================================================================
